---- MODULE Spec2Model ----
(***************************************************************************)
(* Model of the LawyerCaseManager server: the in-memory store MemStorage   *)
(* (src/server/storage.ts), the Express handlers that call it              *)
(* (src/server/routes.ts) and the client-side eligibility filter           *)
(* (src/client/src/pages/hearings.tsx).                                    *)
(*                                                                         *)
(* A JavaScript object is a function from the set of its property names    *)
(* to their values, so that an absent property is an absent key and the    *)
(* object spread {...a, ...b} is Spread(a, b).  A value of type            *)
(* T | undefined is a set with at most one element.  Of every entity the   *)
(* model keeps the properties the server or the eligibility filter reads   *)
(* or writes plus one payload property; the other free-text properties     *)
(* (name, email, phone, address, processNumber, notes, title, ...) are     *)
(* only ever copied and are left out.                                      *)
(***************************************************************************)
EXTENDS Integers, Sequences, FiniteSets, TLC

VARIABLES storage, now, req, res, issued, touched, inflight

vars == <<storage, now, req, res, issued, touched, inflight>>

(***************************************************************************)
(* JavaScript values and Map                                               *)
(***************************************************************************)
Undefined == "undefined"

None == {}

Some(x) == {x}

Has(o, f) == f \in DOMAIN o

Spread(a, b) ==
  [f \in DOMAIN a \cup DOMAIN b |-> IF f \in DOMAIN b THEN b[f] ELSE a[f]]

EmptyMap == [k \in {} |-> k]

MapGet(m, k) == IF k \in DOMAIN m THEN Some(m[k]) ELSE None

MapSet(m, k, v) == [x \in DOMAIN m \cup {k} |-> IF x = k THEN v ELSE m[x]]

MapDelete(m, k) == [x \in DOMAIN m \ {k} |-> m[x]]

RECURSIVE KeysInOrder(_)
KeysInOrder(K) ==
  IF K = {} THEN <<>>
  ELSE LET k == CHOOSE x \in K : \A y \in K : x <= y
       IN  <<k>> \o KeysInOrder(K \ {k})

MapValues(m) ==
  LET ks == KeysInOrder(DOMAIN m) IN [i \in 1..Len(ks) |-> m[ks[i]]]

Find(s, P(_)) ==
  LET hits == {i \in 1..Len(s) : P(s[i])} IN
  IF hits = {} THEN None
  ELSE Some(s[CHOOSE i \in hits : \A j \in hits : i <= j])

Filter(s, P(_)) == SelectSeq(s, P)

(***************************************************************************)
(* MemStorage.  Every method takes the store S (this) and returns the      *)
(* store after the call and the value the method returns.  "new Date()"    *)
(* reads the clock, the variable now.                                      *)
(***************************************************************************)
MemStorageFields ==
  [users |-> EmptyMap, professionals |-> EmptyMap, jurisdictions |-> EmptyMap,
   hearings |-> EmptyMap, payments |-> EmptyMap, tasks |-> EmptyMap,
   userIdCounter |-> 1, professionalIdCounter |-> 1,
   jurisdictionIdCounter |-> 1, hearingIdCounter |-> 1,
   paymentIdCounter |-> 1, taskIdCounter |-> 1]

createUser(S, user) ==
  LET id == S.userIdCounter
      newUser == Spread(user, [id |-> id])
  IN  [storage |-> [S EXCEPT !.userIdCounter = id + 1,
                             !.users = MapSet(S.users, id, newUser)],
       ret |-> newUser]

getProfessionals(S) == MapValues(S.professionals)

createProfessional(S, professional) ==
  LET id == S.professionalIdCounter
      newProfessional == Spread(professional, [id |-> id])
  IN  [storage |-> [S EXCEPT !.professionalIdCounter = id + 1,
                             !.professionals = MapSet(S.professionals, id, newProfessional)],
       ret |-> newProfessional]

updateProfessional(S, id, professional) ==
  LET existingProfessional == MapGet(S.professionals, id) IN
  IF existingProfessional = None THEN [storage |-> S, ret |-> None]
  ELSE LET updatedProfessional ==
             Spread(CHOOSE e \in existingProfessional : TRUE, professional)
       IN  [storage |-> [S EXCEPT !.professionals =
                                    MapSet(S.professionals, id, updatedProfessional)],
            ret |-> Some(updatedProfessional)]

getProfessional(S, id) == MapGet(S.professionals, id)

deleteProfessional(S, id) ==
  [storage |-> [S EXCEPT !.professionals = MapDelete(S.professionals, id)],
   ret |-> id \in DOMAIN S.professionals]

getJurisdictions(S) == MapValues(S.jurisdictions)

createJurisdiction(S, jurisdiction) ==
  LET id == S.jurisdictionIdCounter
      newJurisdiction == Spread(jurisdiction, [id |-> id])
  IN  [storage |-> [S EXCEPT !.jurisdictionIdCounter = id + 1,
                             !.jurisdictions = MapSet(S.jurisdictions, id, newJurisdiction)],
       ret |-> newJurisdiction]

updateJurisdiction(S, id, jurisdiction) ==
  LET existingJurisdiction == MapGet(S.jurisdictions, id) IN
  IF existingJurisdiction = None THEN [storage |-> S, ret |-> None]
  ELSE LET updatedJurisdiction ==
             Spread(CHOOSE e \in existingJurisdiction : TRUE, jurisdiction)
       IN  [storage |-> [S EXCEPT !.jurisdictions =
                                    MapSet(S.jurisdictions, id, updatedJurisdiction)],
            ret |-> Some(updatedJurisdiction)]

getJurisdiction(S, id) == MapGet(S.jurisdictions, id)

deleteJurisdictionCascade(S, id) ==
  [storage |-> [S EXCEPT !.jurisdictions = MapDelete(S.jurisdictions, id),
                         !.hearings = [h \in {x \in DOMAIN S.hearings :
                                                S.hearings[x].jurisdictionId # id}
                                         |-> S.hearings[h]]],
   ret |-> id \in DOMAIN S.jurisdictions]

deleteJurisdiction(S, id) ==
  [storage |-> [S EXCEPT !.jurisdictions = MapDelete(S.jurisdictions, id)],
   ret |-> id \in DOMAIN S.jurisdictions]

getHearing(S, id) == MapGet(S.hearings, id)

getHearings(S) == MapValues(S.hearings)

getPendingAssignmentHearings(S) ==
  Filter(MapValues(S.hearings), LAMBDA h : Has(h, "status") /\ h.status = "pending")

createHearingInputWins(S, hearing) ==
  LET id == S.hearingIdCounter
      newHearing == Spread([id |-> id, minutesUploaded |-> FALSE,
                            paymentStatus |-> "pending", createdAt |-> now], hearing)
  IN  [storage |-> [S EXCEPT !.hearingIdCounter = id + 1,
                             !.hearings = MapSet(S.hearings, id, newHearing)],
       ret |-> newHearing]

createHearing(S, hearing) ==
  LET id == S.hearingIdCounter
      newHearing == Spread(hearing, [id |-> id, minutesUploaded |-> FALSE,
                                     paymentStatus |-> "pending", createdAt |-> now])
  IN  [storage |-> [S EXCEPT !.hearingIdCounter = id + 1,
                             !.hearings = MapSet(S.hearings, id, newHearing)],
       ret |-> newHearing]

updateHearingUpsert(S, id, hearing) ==
  LET existingHearing == MapGet(S.hearings, id)
      updatedHearing == IF existingHearing = None THEN hearing
                        ELSE Spread(CHOOSE e \in existingHearing : TRUE, hearing)
  IN  [storage |-> [S EXCEPT !.hearings = MapSet(S.hearings, id, updatedHearing)],
       ret |-> Some(updatedHearing)]

updateHearingFinalStates(S, id, hearing) ==
  LET existingHearing == MapGet(S.hearings, id) IN
  IF existingHearing = None THEN [storage |-> S, ret |-> None]
  ELSE LET existing == CHOOSE e \in existingHearing : TRUE
           final == /\ Has(existing, "status")
                    /\ existing.status \in {"completed", "cancelled"}
                    /\ Has(hearing, "status")
           updatedHearing == IF final THEN existing ELSE Spread(existing, hearing)
       IN  [storage |-> [S EXCEPT !.hearings = MapSet(S.hearings, id, updatedHearing)],
            ret |-> Some(updatedHearing)]

updateHearing(S, id, hearing) ==
  LET existingHearing == MapGet(S.hearings, id) IN
  IF existingHearing = None THEN [storage |-> S, ret |-> None]
  ELSE LET updatedHearing == Spread(CHOOSE e \in existingHearing : TRUE, hearing)
       IN  [storage |-> [S EXCEPT !.hearings = MapSet(S.hearings, id, updatedHearing)],
            ret |-> Some(updatedHearing)]

deleteHearing(S, id) ==
  [storage |-> [S EXCEPT !.hearings = MapDelete(S.hearings, id)],
   ret |-> id \in DOMAIN S.hearings]

getTasks(S) == MapValues(S.tasks)

createTaskSizeId(S, task) ==
  LET id == Cardinality(DOMAIN S.tasks) + 1
      newTask == Spread(task, [id |-> id, createdAt |-> now])
  IN  [storage |-> [S EXCEPT !.taskIdCounter = id + 1,
                             !.tasks = MapSet(S.tasks, id, newTask)],
       ret |-> newTask]

createTask(S, task) ==
  LET id == S.taskIdCounter
      newTask == Spread(task, [id |-> id, createdAt |-> now])
  IN  [storage |-> [S EXCEPT !.taskIdCounter = id + 1,
                             !.tasks = MapSet(S.tasks, id, newTask)],
       ret |-> newTask]

updateTaskReplace(S, id, task) ==
  LET existingTask == MapGet(S.tasks, id) IN
  IF existingTask = None THEN [storage |-> S, ret |-> None]
  ELSE [storage |-> [S EXCEPT !.tasks = MapSet(S.tasks, id, task)],
        ret |-> Some(task)]

updateTask(S, id, task) ==
  LET existingTask == MapGet(S.tasks, id) IN
  IF existingTask = None THEN [storage |-> S, ret |-> None]
  ELSE LET updatedTask == Spread(CHOOSE e \in existingTask : TRUE, task)
       IN  [storage |-> [S EXCEPT !.tasks = MapSet(S.tasks, id, updatedTask)],
            ret |-> Some(updatedTask)]

deleteTask(S, id) ==
  [storage |-> [S EXCEPT !.tasks = MapDelete(S.tasks, id)],
   ret |-> id \in DOMAIN S.tasks]

getPayments(S) == MapValues(S.payments)

createPaymentStatusOnly(S, payment) ==
  LET id == S.paymentIdCounter
      newPayment == Spread(payment, [id |-> id, createdAt |-> now])
      S1 == [S EXCEPT !.paymentIdCounter = id + 1,
                      !.payments = MapSet(S.payments, id, newPayment)]
      hearing == MapGet(S1.hearings, payment.hearingId)
  IN  IF hearing # None
      THEN LET h == Spread(CHOOSE e \in hearing : TRUE,
                           [paymentStatus |-> IF Has(payment, "status")
                                              THEN payment.status ELSE Undefined])
           IN  [storage |-> [S1 EXCEPT !.hearings =
                               MapSet(MapSet(S1.hearings, payment.hearingId, h), h.id, h)],
                ret |-> newPayment]
      ELSE [storage |-> S1, ret |-> newPayment]

createPaymentUpsertHearing(S, payment) ==
  LET id == S.paymentIdCounter
      newPayment == Spread(payment, [id |-> id, createdAt |-> now])
      S1 == [S EXCEPT !.paymentIdCounter = id + 1,
                      !.payments = MapSet(S.payments, id, newPayment)]
      hearing == MapGet(S1.hearings, payment.hearingId)
      h == Spread(IF hearing # None THEN CHOOSE e \in hearing : TRUE
                  ELSE [id |-> payment.hearingId],
                  [paymentStatus |-> IF Has(payment, "status")
                                     THEN payment.status ELSE Undefined,
                   paymentAmount |-> payment.amount])
  IN  [storage |-> [S1 EXCEPT !.hearings =
                      MapSet(MapSet(S1.hearings, payment.hearingId, h), h.id, h)],
       ret |-> newPayment]

createPayment(S, payment) ==
  LET id == S.paymentIdCounter
      newPayment == Spread(payment, [id |-> id, createdAt |-> now])
      S1 == [S EXCEPT !.paymentIdCounter = id + 1,
                      !.payments = MapSet(S.payments, id, newPayment)]
      hearing == MapGet(S1.hearings, payment.hearingId)
  IN  IF hearing # None
      THEN LET h == Spread(CHOOSE e \in hearing : TRUE,
                           [paymentStatus |-> IF Has(payment, "status")
                                              THEN payment.status ELSE Undefined,
                            paymentAmount |-> payment.amount])
           IN  [storage |-> [S1 EXCEPT !.hearings =
                               MapSet(MapSet(S1.hearings, payment.hearingId, h), h.id, h)],
                ret |-> newPayment]
      ELSE [storage |-> S1, ret |-> newPayment]

updatePaymentSyncAmount(S, id, payment) ==
  LET existingPayment == MapGet(S.payments, id) IN
  IF existingPayment = None THEN [storage |-> S, ret |-> None]
  ELSE LET existing == CHOOSE e \in existingPayment : TRUE
           updatedPayment == Spread(existing, payment)
           S1 == [S EXCEPT !.payments = MapSet(S.payments, id, updatedPayment)]
           hearing == MapGet(S1.hearings, existing.hearingId)
       IN  IF /\ Has(payment, "status")
              /\ payment.status # ""
              /\ (Has(existing, "status") => existing.status # payment.status)
              /\ hearing # None
           THEN LET h == Spread(CHOOSE e \in hearing : TRUE,
                                [paymentStatus |-> payment.status,
                                 paymentAmount |-> updatedPayment.amount])
                IN  [storage |-> [S1 EXCEPT !.hearings =
                                    MapSet(MapSet(S1.hearings, existing.hearingId, h), h.id, h)],
                     ret |-> Some(updatedPayment)]
           ELSE [storage |-> S1, ret |-> Some(updatedPayment)]

updatePayment(S, id, payment) ==
  LET existingPayment == MapGet(S.payments, id) IN
  IF existingPayment = None THEN [storage |-> S, ret |-> None]
  ELSE LET existing == CHOOSE e \in existingPayment : TRUE
           updatedPayment == Spread(existing, payment)
           S1 == [S EXCEPT !.payments = MapSet(S.payments, id, updatedPayment)]
           hearing == MapGet(S1.hearings, existing.hearingId)
       IN  IF /\ Has(payment, "status")
              /\ payment.status # ""
              /\ (Has(existing, "status") => existing.status # payment.status)
              /\ hearing # None
           THEN LET h == Spread(CHOOSE e \in hearing : TRUE,
                                [paymentStatus |-> payment.status])
                IN  [storage |-> [S1 EXCEPT !.hearings =
                                    MapSet(MapSet(S1.hearings, existing.hearingId, h), h.id, h)],
                     ret |-> Some(updatedPayment)]
           ELSE [storage |-> S1, ret |-> Some(updatedPayment)]

deletePayment(S, id) ==
  [storage |-> [S EXCEPT !.payments = MapDelete(S.payments, id)],
   ret |-> id \in DOMAIN S.payments]

Completed(h) == Has(h, "status") /\ h.status = "completed"

getHearingStatsAnyStatus(S) ==
  LET hearings == MapValues(S.hearings) IN
  [todayCount |-> Len(Filter(hearings, LAMBDA h : h.date = now)),
   pendingAssignment |->
     Len(Filter(hearings, LAMBDA h : Has(h, "status") /\ h.status = "pending")),
   pendingMinutes |-> Len(Filter(hearings, LAMBDA h : ~h.minutesUploaded)),
   pendingPayments |->
     Len(Filter(hearings, LAMBDA h : Completed(h) /\ h.paymentStatus = "pending"))]

getHearingStats(S) ==
  LET hearings == MapValues(S.hearings) IN
  [todayCount |-> Len(Filter(hearings, LAMBDA h : h.date = now)),
   pendingAssignment |->
     Len(Filter(hearings, LAMBDA h : Has(h, "status") /\ h.status = "pending")),
   pendingMinutes |->
     Len(Filter(hearings, LAMBDA h : Completed(h) /\ ~h.minutesUploaded)),
   pendingPayments |->
     Len(Filter(hearings, LAMBDA h : Completed(h) /\ h.paymentStatus = "pending"))]

(***************************************************************************)
(* Date.  A timestamp is a day number, day 0 being 1 January of a year of   *)
(* 365 days and the days before it the December of the year before.        *)
(* getMonth is 0-based.  setMonth and setDate keep the other fields and    *)
(* let a day that the month does not have run over into the next month.    *)
(***************************************************************************)
DaysInMonth == <<31, 28, 31, 30, 31, 30, 31, 31, 30, 31, 30, 31>>

RECURSIVE FirstDayOfMonth(_)
FirstDayOfMonth(m) ==
  IF m < 0 THEN FirstDayOfMonth(m + 1) - DaysInMonth[((m + 12) % 12) + 1]
  ELSE IF m = 0 THEN 0
  ELSE FirstDayOfMonth(m - 1) + DaysInMonth[m]

getMonth(d) ==
  CHOOSE m \in -1..11 : FirstDayOfMonth(m) <= d /\ d < FirstDayOfMonth(m + 1)

getDate(d) == d - FirstDayOfMonth(getMonth(d)) + 1

setDate(d, date) == FirstDayOfMonth(getMonth(d)) + date - 1

setMonth(d, month) == FirstDayOfMonth(month) + getDate(d) - 1

RECURSIVE reduce(_, _)
reduce(payments, sum) ==
  IF payments = <<>> THEN sum
  ELSE reduce(Tail(payments), sum + Head(payments).amount)

HasStatus(p, status) == Has(p, "status") /\ p.status = status

filteredPayments(S, period) ==
  LET payments == MapValues(S.payments) IN
  IF period = "week"
  THEN Filter(payments, LAMBDA p : p.createdAt >= setDate(now, getDate(now) - 7))
  ELSE IF period = "month"
  THEN Filter(payments, LAMBDA p : p.createdAt >= setMonth(now, getMonth(now) - 1))
  ELSE payments

getFinancialSummaryPaidAsRest(S, period) ==
  LET filtered == filteredPayments(S, period)
      total == reduce(filtered, 0)
      pending == reduce(Filter(filtered, LAMBDA p : HasStatus(p, "pending")), 0)
  IN  [total |-> total, pending |-> pending, paid |-> total - pending]

getFinancialSummary(S, period) ==
  LET filtered == filteredPayments(S, period) IN
  [total |-> reduce(filtered, 0),
   pending |-> reduce(Filter(filtered, LAMBDA p : HasStatus(p, "pending")), 0),
   paid |-> reduce(Filter(filtered, LAMBDA p : HasStatus(p, "paid")), 0)]

(***************************************************************************)
(* MemStorage.seedData: the records the constructor creates, through the   *)
(* create methods.  Dates are days, day 0 being the day of construction.   *)
(***************************************************************************)
SeedUsers == << [username |-> "admin", role |-> "admin"] >>

SeedJurisdictions ==
  << [state |-> "SP", city |-> "Sao Paulo"],
     [state |-> "RJ", city |-> "Rio de Janeiro"],
     [state |-> "MG", city |-> "Belo Horizonte"],
     [state |-> "DF", city |-> "Brasilia"],
     [state |-> "RS", city |-> "Porto Alegre"] >>

SeedProfessionals ==
  << [type |-> "lawyer", specialization |-> "Civil", jurisdictions |-> <<"SP", "RJ">>],
     [type |-> "lawyer", specialization |-> "Criminal", jurisdictions |-> <<"RJ", "SP">>],
     [type |-> "lawyer", specialization |-> "Labor", jurisdictions |-> <<"MG", "SP">>],
     [type |-> "court_official", specialization |-> "Civil", jurisdictions |-> <<"DF", "SP">>],
     [type |-> "court_official", specialization |-> "Criminal", jurisdictions |-> <<"RS", "RJ">>] >>

SeedHearings ==
  << [jurisdictionId |-> 1, date |-> now, area |-> "Civil",
      professionalId |-> 1, status |-> "assigned"],
     [jurisdictionId |-> 2, date |-> now + 1, area |-> "Criminal",
      professionalId |-> 2, status |-> "assigned"],
     [jurisdictionId |-> 3, date |-> now + 1, area |-> "Labor",
      status |-> "pending"] >>

SeedTasks ==
  << [status |-> "pending", type |-> "upload_minutes", relatedId |-> 1],
     [status |-> "pending", type |-> "assign_professional", relatedId |-> 3],
     [status |-> "pending", type |-> "payment", relatedId |-> 3] >>

create(kind, S, item) ==
  CASE kind = "user" -> createUser(S, item)
    [] kind = "jurisdiction" -> createJurisdiction(S, item)
    [] kind = "professional" -> createProfessional(S, item)
    [] kind = "hearing" -> createHearing(S, item)
    [] kind = "task" -> createTask(S, item)

With(value, Body(_)) == CHOOSE out \in {Body(x) : x \in {value}} : TRUE

RECURSIVE forEach(_, _, _)
forEach(acc, kind, items) ==
  IF items = <<>> THEN acc
  ELSE With(create(kind, acc.storage, Head(items)),
            LAMBDA r : forEach([storage |-> r.storage,
                                ids |-> [acc.ids EXCEPT ![kind] = Append(@, r.ret.id)]],
                               kind, Tail(items)))

seedData(S) ==
  LET none == [user |-> <<>>, jurisdiction |-> <<>>, professional |-> <<>>,
               hearing |-> <<>>, payment |-> <<>>, task |-> <<>>]
  IN  With(forEach([storage |-> S, ids |-> none], "user", SeedUsers), LAMBDA u :
      With(forEach(u, "jurisdiction", SeedJurisdictions), LAMBDA j :
      With(forEach(j, "professional", SeedProfessionals), LAMBDA p :
      With(forEach(p, "hearing", SeedHearings), LAMBDA h :
           forEach(h, "task", SeedTasks)))))

(***************************************************************************)
(* State after "export const storage = new MemStorage()".  req and res are *)
(* the last request served and its response; issued records, per entity    *)
(* type, the ids the create methods have returned, in order; touched lists *)
(* the stored payments, the most recently created or updated first;        *)
(* inflight holds the requests whose handler is suspended at an await,     *)
(* each with the handler's local variables.                                *)
(***************************************************************************)
NoRequest == [route |-> "none"]

Init ==
  /\ now = 0
  /\ \E seeded \in {seedData(MemStorageFields)} :
       /\ storage = seeded.storage
       /\ issued = seeded.ids
  /\ touched = <<>>
  /\ req = NoRequest
  /\ res = [status |-> 0]
  /\ inflight = <<>>

(***************************************************************************)
(* The insert schemas of the shared schema: the keys each keeps and the    *)
(* keys it requires.  safeParse succeeds when the required keys are        *)
(* present (the bodies of the model are well typed) and its data is the    *)
(* body without the keys the schema does not know; partial() requires      *)
(* none.                                                                   *)
(***************************************************************************)
Restrict(o, keys) == [f \in DOMAIN o \cap keys |-> o[f]]

safeParse(schema, body) ==
  [success |-> schema.required \subseteq DOMAIN body,
   data |-> Restrict(body, schema.keys)]

partial(schema) == [keys |-> schema.keys, required |-> {}]

insertProfessionalSchema ==
  [keys |-> {"type", "specialization", "jurisdictions", "userId", "active"},
   required |-> {"type", "specialization", "jurisdictions"}]

insertJurisdictionSchema ==
  [keys |-> {"state", "city"}, required |-> {"state", "city"}]

insertHearingSchemaNothingOmitted ==
  [keys |-> {"jurisdictionId", "date", "area", "professionalId", "status", "notes",
             "minutesUploaded", "minutesUrl", "paymentStatus", "paymentAmount",
             "createdAt"},
   required |-> {"jurisdictionId", "date", "area"}]

insertHearingSchema ==
  [keys |-> {"jurisdictionId", "date", "area", "professionalId", "status", "notes"},
   required |-> {"jurisdictionId", "date", "area"}]

insertPaymentSchema ==
  [keys |-> {"hearingId", "professionalId", "amount", "status", "paymentDate", "notes"},
   required |-> {"hearingId", "professionalId", "amount"}]

insertTaskSchema ==
  [keys |-> {"status", "type", "relatedId", "dueDate"}, required |-> {"type"}]

(***************************************************************************)
(* The handlers of registerRoutes that change the store.  Each action is   *)
(* one request served to its response.  The id of a route is the parsed    *)
(* req.params.id.                                                          *)
(***************************************************************************)
BadRequest == [status |-> 400, body |-> [error |-> "validation"]]

NotFound(what) == [status |-> 404, body |-> [error |-> what]]

Serve(request, response, S, ids, order) ==
  /\ req' = request
  /\ res' = response
  /\ storage' = S
  /\ issued' = ids
  /\ touched' = order
  /\ UNCHANGED <<now, inflight>>

Issue(kind, id) == [issued EXCEPT ![kind] = Append(@, id)]

Without(s, id) == SelectSeq(s, LAMBDA x : x # id)

PostProfessionals(body) ==
  LET result == safeParse(insertProfessionalSchema, body)
      request == [route |-> "POST /api/professionals", body |-> body]
  IN  IF ~result.success THEN Serve(request, BadRequest, storage, issued, touched)
      ELSE LET r == createProfessional(storage, result.data)
           IN  Serve(request, [status |-> 201, body |-> r.ret], r.storage,
                     Issue("professional", r.ret.id), touched)

PutProfessionalsId(id, body) ==
  LET result == safeParse(partial(insertProfessionalSchema), body)
      request == [route |-> "PUT /api/professionals/:id", id |-> id, body |-> body]
  IN  IF ~result.success THEN Serve(request, BadRequest, storage, issued, touched)
      ELSE LET r == updateProfessional(storage, id, result.data)
           IN  IF r.ret = None
               THEN Serve(request, NotFound("Professional not found"), r.storage, issued, touched)
               ELSE Serve(request, [status |-> 200, body |-> CHOOSE x \in r.ret : TRUE],
                          r.storage, issued, touched)

DeleteProfessionalsId(id) ==
  LET r == deleteProfessional(storage, id)
      request == [route |-> "DELETE /api/professionals/:id", id |-> id]
  IN  IF ~r.ret
      THEN Serve(request, NotFound("Professional not found"), r.storage, issued, touched)
      ELSE Serve(request, [status |-> 204], r.storage, issued, touched)

PostJurisdictions(body) ==
  LET result == safeParse(insertJurisdictionSchema, body)
      request == [route |-> "POST /api/jurisdictions", body |-> body]
  IN  IF ~result.success THEN Serve(request, BadRequest, storage, issued, touched)
      ELSE LET r == createJurisdiction(storage, result.data)
           IN  Serve(request, [status |-> 201, body |-> r.ret], r.storage,
                     Issue("jurisdiction", r.ret.id), touched)

PutJurisdictionsId(id, body) ==
  LET result == safeParse(partial(insertJurisdictionSchema), body)
      request == [route |-> "PUT /api/jurisdictions/:id", id |-> id, body |-> body]
  IN  IF ~result.success THEN Serve(request, BadRequest, storage, issued, touched)
      ELSE LET r == updateJurisdiction(storage, id, result.data)
           IN  IF r.ret = None
               THEN Serve(request, NotFound("Jurisdiction not found"), r.storage, issued, touched)
               ELSE Serve(request, [status |-> 200, body |-> CHOOSE x \in r.ret : TRUE],
                          r.storage, issued, touched)

DeleteJurisdictionsId(id) ==
  LET r == deleteJurisdiction(storage, id)
      request == [route |-> "DELETE /api/jurisdictions/:id", id |-> id]
  IN  IF ~r.ret
      THEN Serve(request, NotFound("Jurisdiction not found"), r.storage, issued, touched)
      ELSE Serve(request, [status |-> 204], r.storage, issued, touched)

PostHearings(body) ==
  LET result == safeParse(insertHearingSchema, body)
      request == [route |-> "POST /api/hearings", body |-> body]
  IN  IF ~result.success THEN Serve(request, BadRequest, storage, issued, touched)
      ELSE LET r == createHearing(storage, result.data)
           IN  Serve(request, [status |-> 201, body |-> r.ret], r.storage,
                     Issue("hearing", r.ret.id), touched)

PutHearingsId(id, body) ==
  LET result == safeParse(partial(insertHearingSchema), body)
      request == [route |-> "PUT /api/hearings/:id", id |-> id, body |-> body]
  IN  IF ~result.success THEN Serve(request, BadRequest, storage, issued, touched)
      ELSE LET r == updateHearing(storage, id, result.data)
           IN  IF r.ret = None
               THEN Serve(request, NotFound("Hearing not found"), r.storage, issued, touched)
               ELSE Serve(request, [status |-> 200, body |-> CHOOSE x \in r.ret : TRUE],
                          r.storage, issued, touched)

DeleteHearingsId(id) ==
  LET r == deleteHearing(storage, id)
      request == [route |-> "DELETE /api/hearings/:id", id |-> id]
  IN  IF ~r.ret
      THEN Serve(request, NotFound("Hearing not found"), r.storage, issued, touched)
      ELSE Serve(request, [status |-> 204], r.storage, issued, touched)

UploadUrl(filename) == <<"/uploads/", filename>>

minutesUpdateKeepStatus(minutesUrl) ==
  [minutesUploaded |-> TRUE, minutesUrl |-> minutesUrl]

minutesUpdate(minutesUrl) ==
  [minutesUploaded |-> TRUE, minutesUrl |-> minutesUrl, status |-> "completed"]

minutesTask(tasks, id) ==
  Find(tasks, LAMBDA t : /\ t.type = "upload_minutes"
                         /\ Has(t, "relatedId") /\ t.relatedId = id
                         /\ Has(t, "status") /\ t.status = "pending")

paymentTaskAnyHearing(tasks, hearingId) ==
  Find(tasks, LAMBDA t : /\ t.type = "payment"
                         /\ Has(t, "status") /\ t.status = "pending")

paymentTask(tasks, hearingId) ==
  Find(tasks, LAMBDA t : /\ t.type = "payment"
                         /\ Has(t, "relatedId") /\ t.relatedId = hearingId
                         /\ Has(t, "status") /\ t.status = "pending")

PostHearingsIdMinutesHearingFirst(id, file) ==
  LET request == [route |-> "POST /api/hearings/:id/minutes", id |-> id, file |-> file] IN
  IF getHearing(storage, id) = None
  THEN Serve(request, NotFound("Hearing not found"), storage, issued, touched)
  ELSE LET minutesUrl == IF file = None THEN <<"/uploads/">>
                         ELSE UploadUrl(CHOOSE f \in file : TRUE)
           u == updateHearing(storage, id, minutesUpdate(minutesUrl))
       IN  IF file = None
           THEN Serve(request, [status |-> 400, body |-> [error |-> "No file uploaded"]],
                      u.storage, issued, touched)
           ELSE LET found == minutesTask(getTasks(u.storage), id)
                    S2 == IF found # None
                          THEN updateTask(u.storage, (CHOOSE t \in found : TRUE).id,
                                          [status |-> "completed"]).storage
                          ELSE u.storage
                IN  Serve(request, [status |-> 200, body |-> CHOOSE x \in u.ret : TRUE],
                          S2, issued, touched)

PostHearingsIdMinutes(id, file) ==
  LET request == [route |-> "POST /api/hearings/:id/minutes", id |-> id, file |-> file] IN
  IF file = None
  THEN Serve(request, [status |-> 400, body |-> [error |-> "No file uploaded"]],
             storage, issued, touched)
  ELSE IF getHearing(storage, id) = None
  THEN Serve(request, NotFound("Hearing not found"), storage, issued, touched)
  ELSE LET minutesUrl == UploadUrl(CHOOSE f \in file : TRUE)
           u == updateHearing(storage, id, minutesUpdate(minutesUrl))
       IN  IF u.ret = None
           THEN Serve(request, [status |-> 500, body |-> [error |-> "Failed to update hearing"]],
                      u.storage, issued, touched)
           ELSE LET found == minutesTask(getTasks(u.storage), id)
                    S2 == IF found # None
                          THEN updateTask(u.storage, (CHOOSE t \in found : TRUE).id,
                                          [status |-> "completed"]).storage
                          ELSE u.storage
                IN  Serve(request, [status |-> 200, body |-> CHOOSE x \in u.ret : TRUE],
                          S2, issued, touched)

PostPayments(body) ==
  LET result == safeParse(insertPaymentSchema, body)
      request == [route |-> "POST /api/payments", body |-> body]
  IN  IF ~result.success THEN Serve(request, BadRequest, storage, issued, touched)
      ELSE LET c == createPayment(storage, result.data)
               found == paymentTask(getTasks(c.storage), result.data.hearingId)
               S2 == IF found # None
                     THEN updateTask(c.storage, (CHOOSE t \in found : TRUE).id,
                                     [status |-> "completed"]).storage
                     ELSE c.storage
           IN  Serve(request, [status |-> 201, body |-> c.ret], S2,
                     Issue("payment", c.ret.id), <<c.ret.id>> \o touched)

PutPaymentsId(id, body) ==
  LET result == safeParse(partial(insertPaymentSchema), body)
      request == [route |-> "PUT /api/payments/:id", id |-> id, body |-> body]
  IN  IF ~result.success THEN Serve(request, BadRequest, storage, issued, touched)
      ELSE LET r == updatePayment(storage, id, result.data)
           IN  IF r.ret = None
               THEN Serve(request, NotFound("Payment not found"), r.storage, issued, touched)
               ELSE Serve(request, [status |-> 200, body |-> CHOOSE x \in r.ret : TRUE],
                          r.storage, issued, <<id>> \o Without(touched, id))

DeletePaymentsId(id) ==
  LET r == deletePayment(storage, id)
      request == [route |-> "DELETE /api/payments/:id", id |-> id]
  IN  IF ~r.ret
      THEN Serve(request, NotFound("Payment not found"), r.storage, issued, touched)
      ELSE Serve(request, [status |-> 204], r.storage, issued, Without(touched, id))

PostTasks(body) ==
  LET result == safeParse(insertTaskSchema, body)
      request == [route |-> "POST /api/tasks", body |-> body]
  IN  IF ~result.success THEN Serve(request, BadRequest, storage, issued, touched)
      ELSE LET r == createTask(storage, result.data)
           IN  Serve(request, [status |-> 201, body |-> r.ret], r.storage,
                     Issue("task", r.ret.id), touched)

PutTasksId(id, body) ==
  LET result == safeParse(partial(insertTaskSchema), body)
      request == [route |-> "PUT /api/tasks/:id", id |-> id, body |-> body]
  IN  IF ~result.success THEN Serve(request, BadRequest, storage, issued, touched)
      ELSE LET r == updateTask(storage, id, result.data)
           IN  IF r.ret = None
               THEN Serve(request, NotFound("Task not found"), r.storage, issued, touched)
               ELSE Serve(request, [status |-> 200, body |-> CHOOSE x \in r.ret : TRUE],
                          r.storage, issued, touched)

DeleteTasksId(id) ==
  LET r == deleteTask(storage, id)
      request == [route |-> "DELETE /api/tasks/:id", id |-> id]
  IN  IF ~r.ret
      THEN Serve(request, NotFound("Task not found"), r.storage, issued, touched)
      ELSE Serve(request, [status |-> 204], r.storage, issued, touched)

GetStatsHearings ==
  Serve([route |-> "GET /api/stats/hearings"],
        [status |-> 200, body |-> getHearingStats(storage)], storage, issued, touched)

periodOf(query) ==
  IF query = None \/ query = Some("") THEN "month" ELSE CHOOSE q \in query : TRUE

GetStatsFinancial(query) ==
  Serve([route |-> "GET /api/stats/financial", query |-> query],
        [status |-> 200, body |-> getFinancialSummary(storage, periodOf(query))],
        storage, issued, touched)

\* Days pass between two requests.
Advance(days) ==
  /\ now' = now + days
  /\ UNCHANGED <<storage, req, res, issued, touched, inflight>>

\* A day passes: the clock that new Date() reads moves on.
Tick ==
  /\ now' = now + 1
  /\ UNCHANGED <<storage, req, res, issued, touched, inflight>>

(***************************************************************************)
(* Spec: every handler that changes the store, on the first record of each *)
(* entity type, with at most MaxNewRecords records created after the seed. *)
(***************************************************************************)
MaxNewRecords == 2

Counters(S) ==
  S.userIdCounter + S.professionalIdCounter + S.jurisdictionIdCounter
    + S.hearingIdCounter + S.paymentIdCounter + S.taskIdCounter

SeedCount ==
  Len(SeedUsers) + Len(SeedJurisdictions) + Len(SeedProfessionals)
    + Len(SeedHearings) + Len(SeedTasks)

NewRecords == Counters(storage) - Counters(MemStorageFields) - SeedCount

CanCreate == NewRecords < MaxNewRecords

FirstId == {1}

NewProfessionals ==
  { [type |-> "lawyer", specialization |-> "Civil", jurisdictions |-> <<"SP">>,
     active |-> TRUE],
    [type |-> "lawyer"] }

ProfessionalUpdates == { [active |-> FALSE] }

NewJurisdictions == { [state |-> "SP", city |-> "Campinas"] }

JurisdictionUpdates == { [city |-> "Santos"] }

NewHearings ==
  { [jurisdictionId |-> 1, date |-> 1, area |-> "Civil", status |-> "pending"] }

HearingUpdates == { [professionalId |-> 2, status |-> "assigned", id |-> 7] }

NewPayments ==
  { [hearingId |-> 1, professionalId |-> 1, amount |-> 300, status |-> "paid"] }

PaymentUpdates == { [status |-> "processing"] }

NewTasks == { [type |-> "payment", relatedId |-> 1, status |-> "pending"] }

TaskUpdates == { [status |-> "completed"] }

Next ==
  \/ \E body \in NewProfessionals :
       /\ CanCreate
       /\ PostProfessionals(body)
  \/ \E id \in FirstId, body \in ProfessionalUpdates : PutProfessionalsId(id, body)
  \/ \E id \in FirstId : DeleteProfessionalsId(id)
  \/ \E body \in NewJurisdictions :
       /\ CanCreate
       /\ PostJurisdictions(body)
  \/ \E id \in FirstId, body \in JurisdictionUpdates : PutJurisdictionsId(id, body)
  \/ \E id \in FirstId : DeleteJurisdictionsId(id)
  \/ \E body \in NewHearings :
       /\ CanCreate
       /\ PostHearings(body)
  \/ \E id \in FirstId, body \in HearingUpdates : PutHearingsId(id, body)
  \/ \E id \in FirstId : DeleteHearingsId(id)
  \/ \E body \in NewPayments :
       /\ CanCreate
       /\ PostPayments(body)
  \/ \E id \in FirstId, body \in PaymentUpdates : PutPaymentsId(id, body)
  \/ \E id \in FirstId : DeletePaymentsId(id)
  \/ \E body \in NewTasks :
       /\ CanCreate
       /\ PostTasks(body)
  \/ \E id \in FirstId, body \in TaskUpdates : PutTasksId(id, body)
  \/ \E id \in FirstId : DeleteTasksId(id)

Spec == Init /\ [][Next]_vars

(***************************************************************************)
(* Properties                                                              *)
(***************************************************************************)
PutRoutes ==
  [professionals |-> "PUT /api/professionals/:id",
   jurisdictions |-> "PUT /api/jurisdictions/:id",
   hearings |-> "PUT /api/hearings/:id",
   payments |-> "PUT /api/payments/:id",
   tasks |-> "PUT /api/tasks/:id"]

PutSchemas ==
  [professionals |-> partial(insertProfessionalSchema),
   jurisdictions |-> partial(insertJurisdictionSchema),
   hearings |-> partial(insertHearingSchema),
   payments |-> partial(insertPaymentSchema),
   tasks |-> partial(insertTaskSchema)]

\* C1: per entity type, the ids the create methods return are strictly
\* increasing, the first one ever returned is 1, and none is returned twice,
\* whatever was updated or deleted in between.
C1_IdsIncreasingNeverReused ==
  \A kind \in DOMAIN issued :
    LET ids == issued[kind] IN
    /\ ids # <<>> => ids[1] = 1
    /\ \A i, j \in 1..Len(ids) : i < j => ids[i] < ids[j]

\* C1 witness: payment 1 was created and deleted, and the next payment
\* created got id 2.
C1_Witness ==
  /\ issued.payment = <<1, 2>>
  /\ DOMAIN storage.payments = {2}
  /\ req.route = "POST /api/payments"
  /\ res.body.id = 2

\* C2: an update of an id that is not in the store returns absent (the
\* handler answers 404) and leaves the whole store unchanged: no record of
\* any entity type is created or modified.
C2_UpdateMissingNoEffect ==
  [][\A c \in DOMAIN PutRoutes :
       (req'.route = PutRoutes[c] /\ req'.id \notin DOMAIN storage[c])
         => (res'.status = 404 /\ storage' = storage)]_vars

\* C2 witness: a payment update carrying a status was answered 404 while a
\* hearing with another paymentStatus is stored.
C2_Witness ==
  /\ req.route = "PUT /api/payments/:id"
  /\ Has(req.body, "status")
  /\ res.status = 404
  /\ \E h \in DOMAIN storage.hearings :
       storage.hearings[h].paymentStatus # req.body.status

\* C3: an update of an existing id overwrites exactly the fields of the
\* partial, keeps every other field of the record and every other record of
\* that entity type, and returns the entity as stored.
C3_UpdateMergesPartial ==
  [][\A c \in DOMAIN PutRoutes :
       (req'.route = PutRoutes[c] /\ req'.id \in DOMAIN storage[c])
         => LET id == req'.id
                data == safeParse(PutSchemas[c], req'.body).data
                old == storage[c][id]
                new == storage'[c][id]
            IN  /\ DOMAIN storage'[c] = DOMAIN storage[c]
                /\ DOMAIN new = DOMAIN old \cup DOMAIN data
                /\ \A f \in DOMAIN data : new[f] = data[f]
                /\ \A f \in DOMAIN old \ DOMAIN data : new[f] = old[f]
                /\ \A other \in DOMAIN storage[c] \ {id} :
                     storage'[c][other] = storage[c][other]
                /\ res'.status = 200
                /\ res'.body = new]_vars

\* C3 witness: task 1 was updated to completed and kept its type and
\* relatedId, next to the other seeded tasks.
C3_Witness ==
  /\ req.route = "PUT /api/tasks/:id"
  /\ res.status = 200
  /\ req.id \in DOMAIN storage.tasks
  /\ storage.tasks[req.id].status = "completed"
  /\ storage.tasks[req.id].type = "upload_minutes"
  /\ storage.tasks[req.id].relatedId = 1
  /\ 2 \in DOMAIN storage.tasks

(***************************************************************************)
(* The hearings page: the professionals it offers for a hearing.  Its      *)
(* query data are the lists GET /api/professionals and                     *)
(* GET /api/jurisdictions return for the current store.                    *)
(***************************************************************************)
Includes(s, x) == \E i \in 1..Len(s) : s[i] = x

Elements(s) == {s[i] : i \in 1..Len(s)}

getEligibleProfessionalsAnyArea(hearing) ==
  LET professionals == getProfessionals(storage)
      jurisdictions == getJurisdictions(storage)
      jurisdiction == Find(jurisdictions, LAMBDA j : j.id = hearing.jurisdictionId)
  IN  IF jurisdiction = None THEN <<>>
      ELSE Filter(professionals,
                  LAMBDA p : /\ Has(p, "active") /\ p.active
                             /\ Includes(p.jurisdictions,
                                         (CHOOSE j \in jurisdiction : TRUE).state))

getEligibleProfessionalsAnyJurisdiction(hearing) ==
  LET professionals == getProfessionals(storage)
      jurisdictions == getJurisdictions(storage)
      jurisdiction == Find(jurisdictions, LAMBDA j : j.id = hearing.jurisdictionId)
  IN  Filter(professionals,
             LAMBDA p : /\ Has(p, "active") /\ p.active
                        /\ \/ jurisdiction = None
                           \/ Includes(p.jurisdictions,
                                       (CHOOSE j \in jurisdiction : TRUE).state)
                        /\ p.specialization = hearing.area)

getEligibleProfessionals(hearing) ==
  LET professionals == getProfessionals(storage)
      jurisdictions == getJurisdictions(storage)
      jurisdiction == Find(jurisdictions, LAMBDA j : j.id = hearing.jurisdictionId)
  IN  IF jurisdiction = None THEN <<>>
      ELSE Filter(professionals,
                  LAMBDA p : /\ Has(p, "active") /\ p.active
                             /\ Includes(p.jurisdictions,
                                         (CHOOSE j \in jurisdiction : TRUE).state)
                             /\ p.specialization = hearing.area)

(***************************************************************************)
(* SpecEligibility: professionals, jurisdictions and hearings are created, *)
(* edited and deleted; at most MaxNewEligibility records are created.      *)
(***************************************************************************)
MaxNewEligibility == 3

EligibleProfessionals ==
  { [type |-> "lawyer", specialization |-> "Civil", jurisdictions |-> <<"SP">>,
     active |-> TRUE] }

EligibleProfessionalUpdates ==
  { [active |-> TRUE], [active |-> FALSE], [specialization |-> "Labor"] }

EligibleJurisdictions == { [state |-> "SP", city |-> "Campinas"] }

EligibleJurisdictionUpdates == { [state |-> "MG"] }

EligibleHearings ==
  { [jurisdictionId |-> 6, date |-> 1, area |-> "Civil", status |-> "pending"] }

EligibleHearingUpdates == { [area |-> "Labor"], [jurisdictionId |-> 6] }

NextEligibility ==
  \/ \E body \in EligibleProfessionals :
       /\ NewRecords < MaxNewEligibility
       /\ PostProfessionals(body)
  \/ \E id \in FirstId, body \in EligibleProfessionalUpdates : PutProfessionalsId(id, body)
  \/ \E body \in EligibleJurisdictions :
       /\ NewRecords < MaxNewEligibility
       /\ PostJurisdictions(body)
  \/ \E id \in FirstId, body \in EligibleJurisdictionUpdates : PutJurisdictionsId(id, body)
  \/ \E id \in FirstId : DeleteJurisdictionsId(id)
  \/ \E body \in EligibleHearings :
       /\ NewRecords < MaxNewEligibility
       /\ PostHearings(body)
  \/ \E id \in FirstId, body \in EligibleHearingUpdates : PutHearingsId(id, body)

SpecEligibility == Init /\ [][NextEligibility]_vars

\* C4: a stored professional P is in the eligibility result for a stored
\* hearing H exactly when P.active is true, the jurisdiction H.jurisdictionId
\* names exists and its state is one of P.jurisdictions, and
\* P.specialization equals H.area.
C4_EligibleIff ==
  \A h \in DOMAIN storage.hearings, p \in DOMAIN storage.professionals :
    LET H == storage.hearings[h]
        P == storage.professionals[p]
    IN  P \in Elements(getEligibleProfessionals(H))
          <=> /\ Has(P, "active") /\ P.active = TRUE
              /\ H.jurisdictionId \in DOMAIN storage.jurisdictions
              /\ storage.jurisdictions[H.jurisdictionId].state \in Elements(P.jurisdictions)
              /\ P.specialization = H.area

\* C4 witness: jurisdiction 6 (state SP), professional 6 (active, Civil, SP)
\* and Civil hearing 4 in jurisdiction 6 were created, and professional 6 is
\* in the result for hearing 4.
C4_Witness ==
  /\ 6 \in DOMAIN storage.jurisdictions /\ storage.jurisdictions[6].state = "SP"
  /\ 6 \in DOMAIN storage.professionals
  /\ storage.professionals[6].active = TRUE
  /\ storage.professionals[6].specialization = "Civil"
  /\ storage.professionals[6].jurisdictions = <<"SP">>
  /\ 4 \in DOMAIN storage.hearings
  /\ storage.hearings[4].jurisdictionId = 6 /\ storage.hearings[4].area = "Civil"
  /\ storage.professionals[6] \in Elements(getEligibleProfessionals(storage.hearings[4]))

(***************************************************************************)
(* SpecLifecycle: minutes uploads for hearing 1, payments for hearing 3    *)
(* and for a hearing that does not exist, and tasks for both, with at most *)
(* MaxNewLifecycle payments and tasks created.                             *)
(***************************************************************************)
MaxNewLifecycle == 2

LifecycleUploads ==
  { [id |-> 1, file |-> Some("minutes-1.pdf")],
    [id |-> 1, file |-> None],
    [id |-> 9, file |-> Some("minutes-1.pdf")],
    [id |-> 9, file |-> None] }

LifecycleHearingUpdates == { [status |-> "cancelled"] }

LifecyclePayments ==
  { [hearingId |-> 3, professionalId |-> 3, amount |-> 300, status |-> "paid"],
    [hearingId |-> 3, professionalId |-> 3, amount |-> 500, status |-> "pending"],
    [hearingId |-> 9, professionalId |-> 3, amount |-> 300, status |-> "paid"] }

LifecyclePaymentIds == {1, 2}

LifecyclePaymentUpdates ==
  { [status |-> "processing"],
    [amount |-> 500, status |-> "paid"],
    [hearingId |-> 1, status |-> "pending"] }

LifecycleTasks ==
  { [type |-> "upload_minutes", relatedId |-> 1, status |-> "pending"],
    [type |-> "payment", relatedId |-> 3, status |-> "pending"] }

NextLifecycle ==
  \/ \E upload \in LifecycleUploads : PostHearingsIdMinutes(upload.id, upload.file)
  \/ \E id \in FirstId, body \in LifecycleHearingUpdates : PutHearingsId(id, body)
  \/ \E body \in LifecyclePayments :
       /\ NewRecords < MaxNewLifecycle
       /\ PostPayments(body)
  \/ \E id \in LifecyclePaymentIds, body \in LifecyclePaymentUpdates : PutPaymentsId(id, body)
  \/ \E body \in LifecycleTasks :
       /\ NewRecords < MaxNewLifecycle
       /\ PostTasks(body)

SpecLifecycle == Init /\ [][NextLifecycle]_vars

(***************************************************************************)
(* SpecPayments: payments are only created and updated.                    *)
(***************************************************************************)
\* Updates that leave the payment with the hearing it was created for.
PaymentStatusUpdates == { u \in LifecyclePaymentUpdates : ~Has(u, "hearingId") }

NextPayments ==
  \/ \E body \in LifecyclePayments :
       /\ NewRecords < MaxNewLifecycle
       /\ PostPayments(body)
  \/ \E id \in LifecyclePaymentIds, body \in PaymentStatusUpdates : PutPaymentsId(id, body)

SpecPayments == Init /\ [][NextPayments]_vars

ChangedTasks == {t \in DOMAIN storage.tasks : storage'.tasks[t] # storage.tasks[t]}

Except(o, keys) == Restrict(o, DOMAIN o \ keys)

\* C5: a minutes upload with a file for an existing hearing H sets
\* minutesUploaded, minutesUrl (the uploaded file) and status "completed" on
\* H whatever its status was, and changes at most one task, a pending
\* upload_minutes task of H, to completed; the other tasks, the other
\* hearings and H's other fields stay as they were.
C5_MinutesUpload ==
  [][(/\ req'.route = "POST /api/hearings/:id/minutes"
      /\ req'.file # None
      /\ req'.id \in DOMAIN storage.hearings)
       => LET id == req'.id
              H == storage'.hearings[id]
          IN  /\ DOMAIN storage'.hearings = DOMAIN storage.hearings
              /\ H.minutesUploaded = TRUE
              /\ H.minutesUrl = <<"/uploads/", CHOOSE f \in req'.file : TRUE>>
              /\ H.status = "completed"
              /\ Except(H, {"minutesUploaded", "minutesUrl", "status"})
                   = Except(storage.hearings[id], {"minutesUploaded", "minutesUrl", "status"})
              /\ \A other \in DOMAIN storage.hearings \ {id} :
                   storage'.hearings[other] = storage.hearings[other]
              /\ DOMAIN storage'.tasks = DOMAIN storage.tasks
              /\ Cardinality(ChangedTasks) <= 1
              /\ \A t \in ChangedTasks :
                   /\ storage.tasks[t].type = "upload_minutes"
                   /\ storage.tasks[t].relatedId = id
                   /\ storage.tasks[t].status = "pending"
                   /\ storage'.tasks[t] = Spread(storage.tasks[t], [status |-> "completed"])]_vars

\* C5 witness: hearing 1 has two upload_minutes tasks; after the upload it
\* is completed with its minutes, task 1 is completed and task 4 is still
\* pending.
C5_Witness ==
  /\ req.route = "POST /api/hearings/:id/minutes"
  /\ req.id = 1
  /\ res.status = 200
  /\ storage.hearings[1].status = "completed"
  /\ storage.hearings[1].minutesUploaded
  /\ storage.tasks[1].status = "completed"
  /\ 4 \in DOMAIN storage.tasks
  /\ storage.tasks[4].type = "upload_minutes"
  /\ storage.tasks[4].relatedId = 1
  /\ storage.tasks[4].status = "pending"

\* C6: creating a payment with status s and amount a for an existing hearing
\* H leaves H.paymentStatus = s and H.paymentAmount = a, H's other fields
\* and the other hearings unchanged.
C6_PaymentSyncsHearing ==
  [][(/\ req'.route = "POST /api/payments"
      /\ safeParse(insertPaymentSchema, req'.body).success
      /\ Has(req'.body, "status")
      /\ req'.body.hearingId \in DOMAIN storage.hearings)
       => LET h == req'.body.hearingId
              H == storage'.hearings[h]
          IN  /\ DOMAIN storage'.hearings = DOMAIN storage.hearings
              /\ H.paymentStatus = req'.body.status
              /\ Has(H, "paymentAmount") /\ H.paymentAmount = req'.body.amount
              /\ Except(H, {"paymentStatus", "paymentAmount"})
                   = Except(storage.hearings[h], {"paymentStatus", "paymentAmount"})
              /\ \A other \in DOMAIN storage.hearings \ {h} :
                   storage'.hearings[other] = storage.hearings[other]]_vars

\* C6 witness: the first payment, paid 300 for hearing 3 (pending until
\* then), left hearing 3 paid with amount 300.
C6_Witness ==
  /\ req.route = "POST /api/payments"
  /\ req.body.hearingId = 3 /\ req.body.status = "paid" /\ req.body.amount = 300
  /\ issued.payment = <<1>>
  /\ storage.hearings[3].paymentStatus = "paid"
  /\ storage.hearings[3].paymentAmount = 300

MostRecentPayment(h) ==
  Find(touched, LAMBDA p : storage.payments[p].hearingId = h)

\* C7: after any sequence of payment creations and updates, a hearing that
\* some payment references has the paymentStatus of the payment referencing
\* it that was created or updated last.
C7_HearingMirrorsLastTouchedPayment ==
  \A h \in DOMAIN storage.hearings :
    MostRecentPayment(h) # None
      => storage.hearings[h].paymentStatus
           = storage.payments[CHOOSE p \in MostRecentPayment(h) : TRUE].status

C9_PaymentWithoutHearing ==
  [][(/\ req'.route = "POST /api/payments"
      /\ safeParse(insertPaymentSchema, req'.body).success
      /\ req'.body.hearingId \notin DOMAIN storage.hearings)
       => /\ res'.status = 201
          /\ res'.body.id \notin DOMAIN storage.payments
          /\ res'.body.id \notin Elements(issued.payment)
          /\ DOMAIN storage'.payments = DOMAIN storage.payments \cup {res'.body.id}
          /\ storage'.payments[res'.body.id] = res'.body
          /\ Restrict(res'.body, DOMAIN req'.body) = req'.body
          /\ storage'.hearings = storage.hearings]_vars

\* C9 witness: a payment for hearing 9, which does not exist, is stored.
C9_Witness ==
  /\ req.route = "POST /api/payments"
  /\ req.body.hearingId = 9
  /\ 9 \notin DOMAIN storage.hearings
  /\ res.status = 201
  /\ res.body.id \in DOMAIN storage.payments
  /\ storage.payments[res.body.id].hearingId = 9

MatchingPaymentTasks(h) ==
  {t \in DOMAIN storage.tasks :
     /\ storage.tasks[t].type = "payment"
     /\ Has(storage.tasks[t], "relatedId") /\ storage.tasks[t].relatedId = h
     /\ Has(storage.tasks[t], "status") /\ storage.tasks[t].status = "pending"}

\* C10: recording a payment for hearingId h completes at most one task, the
\* first pending task of type "payment" with relatedId h; without such a
\* task no task changes, and no other task is ever changed.
C10_PaymentCompletesOneTask ==
  [][(/\ req'.route = "POST /api/payments"
      /\ safeParse(insertPaymentSchema, req'.body).success)
       => LET matching == MatchingPaymentTasks(req'.body.hearingId) IN
          /\ DOMAIN storage'.tasks = DOMAIN storage.tasks
          /\ Cardinality(ChangedTasks) <= 1
          /\ matching = {} => ChangedTasks = {}
          /\ \A t \in ChangedTasks :
               /\ t \in matching
               /\ \A u \in matching : t <= u
               /\ storage'.tasks[t] = Spread(storage.tasks[t], [status |-> "completed"])]_vars

\* C10 witness: with two pending payment tasks for hearing 3, a payment for
\* hearing 3 completed task 3 and left task 4 pending.
C10_Witness ==
  /\ req.route = "POST /api/payments"
  /\ req.body.hearingId = 3
  /\ storage.tasks[3].status = "completed"
  /\ 4 \in DOMAIN storage.tasks
  /\ storage.tasks[4].type = "payment"
  /\ storage.tasks[4].relatedId = 3
  /\ storage.tasks[4].status = "pending"
  /\ issued.payment = <<1>>

\* C11 (as stated): a minutes upload without a file, or for a hearing that
\* does not exist, is answered not-found (404) and modifies no hearing and
\* no task.
C11_UploadFailsNotFound ==
  [][(/\ req'.route = "POST /api/hearings/:id/minutes"
      /\ (req'.file = None \/ req'.id \notin DOMAIN storage.hearings))
       => /\ res'.status = 404
          /\ storage'.hearings = storage.hearings
          /\ storage'.tasks = storage.tasks]_vars

\* C11 (amended): a minutes upload without a file is answered bad-request
\* (400) whether or not the hearing exists; with a file for a hearing that
\* does not exist it is answered not-found (404); in both cases no hearing
\* and no task is modified.
C11_UploadFails ==
  [][(/\ req'.route = "POST /api/hearings/:id/minutes"
      /\ (req'.file = None \/ req'.id \notin DOMAIN storage.hearings))
       => /\ res'.status = IF req'.file = None THEN 400 ELSE 404
          /\ storage'.hearings = storage.hearings
          /\ storage'.tasks = storage.tasks]_vars

\* C11 witness: an upload without a file for hearing 1, which exists and
\* has a pending upload_minutes task, was answered 400 and left both as
\* they were.
C11_Witness ==
  /\ req.route = "POST /api/hearings/:id/minutes"
  /\ req.id = 1
  /\ req.file = None
  /\ res.status = 400
  /\ ~storage.hearings[1].minutesUploaded
  /\ storage.hearings[1].status = "assigned"
  /\ storage.tasks[1].status = "pending"

DeleteRoutes ==
  [professionals |-> "DELETE /api/professionals/:id",
   jurisdictions |-> "DELETE /api/jurisdictions/:id",
   hearings |-> "DELETE /api/hearings/:id",
   payments |-> "DELETE /api/payments/:id",
   tasks |-> "DELETE /api/tasks/:id"]

\* C12: a delete reports success (204) exactly when a record with that id
\* existed and not-found otherwise; afterwards the id is absent, get(id) is
\* absent and another delete(id) returns false; the other records of the
\* map are kept, and deleting a jurisdiction or a professional changes no
\* hearing.
C12_DeleteSemantics ==
  [][\A k \in DOMAIN DeleteRoutes :
       req'.route = DeleteRoutes[k]
         => /\ res'.status = IF req'.id \in DOMAIN storage[k] THEN 204 ELSE 404
            /\ DOMAIN storage'[k] = DOMAIN storage[k] \ {req'.id}
            /\ \A other \in DOMAIN storage'[k] : storage'[k][other] = storage[k][other]
            /\ k = "jurisdictions"
                 => /\ getJurisdiction(storage', req'.id) = None
                    /\ ~deleteJurisdiction(storage', req'.id).ret
                    /\ storage'.hearings = storage.hearings
            /\ k = "professionals"
                 => /\ getProfessional(storage', req'.id) = None
                    /\ ~deleteProfessional(storage', req'.id).ret
                    /\ storage'.hearings = storage.hearings]_vars

\* C12 witness: jurisdiction 1 was deleted and hearing 1 still carries
\* jurisdictionId 1.
C12_Witness ==
  /\ req.route = "DELETE /api/jurisdictions/:id"
  /\ req.id = 1
  /\ res.status = 204
  /\ getJurisdiction(storage, 1) = None
  /\ 1 \in DOMAIN storage.hearings
  /\ storage.hearings[1].jurisdictionId = 1

(***************************************************************************)
(* SpecStore: hearings and payments are created through the routes and by  *)
(* direct calls of the store's methods, whose argument need not have       *)
(* passed a schema.                                                        *)
(***************************************************************************)
Return(value) == [status |-> 0, body |-> value]

CallCreateHearing(hearing) ==
  LET c == createHearing(storage, hearing) IN
  Serve([route |-> "createHearing", body |-> hearing], Return(c.ret), c.storage,
        Issue("hearing", c.ret.id), touched)

CallCreatePayment(payment) ==
  LET c == createPayment(storage, payment) IN
  Serve([route |-> "createPayment", body |-> payment], Return(c.ret), c.storage,
        Issue("payment", c.ret.id), <<c.ret.id>> \o touched)

MaxNewStore == 3

StoreHearings ==
  { [jurisdictionId |-> 1, date |-> 1, area |-> "Civil"],
    [jurisdictionId |-> 1, date |-> 1, area |-> "Civil", status |-> "assigned",
     professionalId |-> 1],
    [jurisdictionId |-> 1, date |-> 1, area |-> "Civil", status |-> "completed",
     minutesUploaded |-> TRUE, paymentStatus |-> "paid", createdAt |-> 99] }

StorePayments ==
  { [hearingId |-> 1, professionalId |-> 1, amount |-> 300],
    [hearingId |-> 1, professionalId |-> 1, amount |-> 300, status |-> "paid"],
    [hearingId |-> 9, professionalId |-> 1, amount |-> 300] }

NextStore ==
  \/ \E hearing \in StoreHearings :
       /\ NewRecords < MaxNewStore
       /\ CallCreateHearing(hearing)
  \/ \E body \in StoreHearings :
       /\ NewRecords < MaxNewStore
       /\ PostHearings(body)
  \/ \E payment \in StorePayments :
       /\ NewRecords < MaxNewStore
       /\ CallCreatePayment(payment)
  \/ \E body \in StorePayments :
       /\ NewRecords < MaxNewStore
       /\ PostPayments(body)

SpecStore == Init /\ [][NextStore]_vars

CreatesHearing == req'.route \in {"createHearing", "POST /api/hearings"} /\ res'.status # 400

CreatesPayment == req'.route \in {"createPayment", "POST /api/payments"} /\ res'.status # 400

\* C13: every hearing returned by a creation has minutesUploaded = false,
\* paymentStatus = "pending" and createdAt = the time of the creation, also
\* when the input carried other values for them, and it is the hearing
\* stored under the new id.
C13_HearingDefaults ==
  [][CreatesHearing
       => LET hearing == res'.body IN
          /\ hearing.minutesUploaded = FALSE
          /\ hearing.paymentStatus = "pending"
          /\ hearing.createdAt = now
          /\ hearing.id = storage.hearingIdCounter
          /\ hearing.id \notin DOMAIN storage.hearings
          /\ DOMAIN storage'.hearings = DOMAIN storage.hearings \cup {hearing.id}
          /\ storage'.hearings[hearing.id] = hearing]_vars

\* C13 witness: createHearing was called with minutesUploaded, paymentStatus
\* and createdAt in its argument and returned the stored hearing with the
\* defaults.
C13_Witness ==
  /\ req.route = "createHearing"
  /\ Has(req.body, "minutesUploaded") /\ req.body.minutesUploaded
  /\ req.body.paymentStatus = "paid"
  /\ req.body.createdAt # now
  /\ res.body.minutesUploaded = FALSE
  /\ res.body.paymentStatus = "pending"
  /\ storage.hearings[res.body.id] = res.body

\* C14: a payment created without a status is stored with status "pending",
\* and the hearing it references then has paymentStatus "pending".
C14_PaymentStatusDefault ==
  [][(CreatesPayment /\ ~Has(req'.body, "status"))
       => LET payment == storage'.payments[res'.body.id] IN
          /\ Has(payment, "status")
          /\ payment.status = "pending"
          /\ payment.hearingId \in DOMAIN storage'.hearings
               => storage'.hearings[payment.hearingId].paymentStatus = "pending"]_vars

\* C15: a hearing created without a status has status "pending" and is one
\* of the hearings the pending-assignment query returns.
C15_HearingStatusDefault ==
  [][(CreatesHearing /\ ~Has(req'.body, "status"))
       => LET hearing == storage'.hearings[res'.body.id] IN
          /\ Has(hearing, "status")
          /\ hearing.status = "pending"
          /\ Includes(getPendingAssignmentHearings(storage'), hearing)]_vars

(***************************************************************************)
(* SpecStats: the hearing statistics, asked for between status updates,    *)
(* minutes uploads, payments and new hearings, over several days.          *)
(***************************************************************************)
MaxStatsDay == 2

MaxNewStats == 1

StatsHearingIds == {1, 2}

StatsHearingUpdates == { [status |-> "completed"], [status |-> "pending"] }

StatsUploads == { [id |-> 1, file |-> Some("minutes-1.pdf")] }

StatsPayments ==
  { [hearingId |-> 1, professionalId |-> 1, amount |-> 300, status |-> "paid"],
    [hearingId |-> 1, professionalId |-> 1, amount |-> 300, status |-> "pending"] }

NextStats ==
  \/ GetStatsHearings
  \/ /\ now < MaxStatsDay
     /\ Tick
  \/ \E id \in StatsHearingIds, body \in StatsHearingUpdates : PutHearingsId(id, body)
  \/ \E upload \in StatsUploads : PostHearingsIdMinutes(upload.id, upload.file)
  \/ \E body \in StatsPayments :
       /\ NewRecords < MaxNewStats
       /\ PostPayments(body)

SpecStats == Init /\ [][NextStats]_vars

HearingsWhere(S, P(_)) == {h \in DOMAIN S.hearings : P(S.hearings[h])}

PendingMinutesOf(S) ==
  HearingsWhere(S, LAMBDA h : Has(h, "status") /\ h.status = "completed"
                              /\ h.minutesUploaded = FALSE)

PendingPaymentsOf(S) ==
  HearingsWhere(S, LAMBDA h : Has(h, "status") /\ h.status = "completed"
                              /\ h.paymentStatus = "pending")

\* C16: the hearing statistics are todayCount = number of hearings dated
\* today, pendingAssignment = number with status pending, pendingMinutes =
\* number completed without minutes, pendingPayments = number completed with
\* paymentStatus pending; a minutes upload for a hearing takes it out of
\* pendingMinutes, and a payment with a status other than pending for a
\* completed hearing takes it out of pendingPayments.
C16_HearingStats ==
  [][/\ (req'.route = "GET /api/stats/hearings" /\ now' = now)
          => res'.body =
               [todayCount |->
                  Cardinality(HearingsWhere(storage, LAMBDA h : h.date = now)),
                pendingAssignment |->
                  Cardinality(HearingsWhere(storage,
                     LAMBDA h : Has(h, "status") /\ h.status = "pending")),
                pendingMinutes |-> Cardinality(PendingMinutesOf(storage)),
                pendingPayments |-> Cardinality(PendingPaymentsOf(storage))]
     /\ (req'.route = "POST /api/hearings/:id/minutes" /\ res'.status = 200 /\ now' = now)
          => /\ req'.id \notin PendingMinutesOf(storage')
             /\ getHearingStats(storage').pendingMinutes =
                  Cardinality(PendingMinutesOf(storage) \ {req'.id})
     /\ (/\ req'.route = "POST /api/payments" /\ res'.status = 201 /\ now' = now
         /\ req'.body.status # "pending"
         /\ req'.body.hearingId \in DOMAIN storage.hearings
         /\ Completed(storage.hearings[req'.body.hearingId]))
          => /\ req'.body.hearingId \notin PendingPaymentsOf(storage')
             /\ getHearingStats(storage').pendingPayments =
                  Cardinality(PendingPaymentsOf(storage) \ {req'.body.hearingId})]_vars

\* C16 witness: on day 1, with hearing 1 completed without minutes and with
\* its payment pending, the statistics count hearings 2 and 3 for today,
\* hearing 3 as pending assignment and hearing 1 for pending minutes and
\* pending payments.
C16_Witness ==
  /\ req.route = "GET /api/stats/hearings"
  /\ now = 1
  /\ storage.hearings[1].status = "completed"
  /\ ~storage.hearings[1].minutesUploaded
  /\ storage.hearings[2].status = "assigned"
  /\ res.body = [todayCount |-> 2, pendingAssignment |-> 1,
                 pendingMinutes |-> 1, pendingPayments |-> 1]

(***************************************************************************)
(* SpecSummary: the server is constructed on 1 March; payments are created *)
(* and the financial summary is asked for as the days pass.                *)
(***************************************************************************)
StartDays == {FirstDayOfMonth(2)}

MaxSummaryDay == 89

MaxNewSummary == 2

\* The days on which requests arrive: 2, 10, 30 and 31 days after the start.
SummaryDates == {start + days : start \in StartDays, days \in {2, 10, 30, 31}}

SummaryPeriods == {None, Some(""), Some("week"), Some("month"), Some("year")}

SummaryPayments ==
  { [hearingId |-> 1, professionalId |-> 1, amount |-> 300, status |-> "paid"],
    [hearingId |-> 1, professionalId |-> 1, amount |-> 500, status |-> "pending"],
    [hearingId |-> 1, professionalId |-> 1, amount |-> 200, status |-> "processing"],
    [hearingId |-> 1, professionalId |-> 1, amount |-> 0, status |-> "processing"] }

InitSummary ==
  /\ now \in StartDays
  /\ \E seeded \in {seedData(MemStorageFields)} :
       /\ storage = seeded.storage
       /\ issued = seeded.ids
  /\ touched = <<>>
  /\ req = NoRequest
  /\ res = [status |-> 0]
  /\ inflight = <<>>

NextSummary ==
  \/ \E body \in SummaryPayments :
       /\ NewRecords < MaxNewSummary
       /\ PostPayments(body)
  \/ \E day \in SummaryDates :
       /\ now < day
       /\ day <= MaxSummaryDay
       /\ Advance(day - now)
  \/ \E query \in SummaryPeriods : GetStatsFinancial(query)

SpecSummary == InitSummary /\ [][NextSummary]_vars

RECURSIVE SumOfAmounts(_, _)
SumOfAmounts(S, ids) ==
  IF ids = {} THEN 0
  ELSE LET id == CHOOSE x \in ids : TRUE
       IN  S.payments[id].amount + SumOfAmounts(S, ids \ {id})

\* The day a calendar month before day d: the same day of the month before,
\* or that month's last day when it is shorter.
CalendarMonthBefore(d) ==
  LET m == getMonth(d) - 1
      last == FirstDayOfMonth(m + 1) - 1
      same == FirstDayOfMonth(m) + getDate(d) - 1
  IN  IF same <= last THEN same ELSE last

PaymentsSince(S, day) == {id \in DOMAIN S.payments : S.payments[id].createdAt >= day}

PaymentsOfPeriod(S, period) ==
  IF period = "week" THEN PaymentsSince(S, now - 7)
  ELSE IF period = "month" THEN PaymentsSince(S, CalendarMonthBefore(now))
  ELSE DOMAIN S.payments

AsksSummary == req'.route = "GET /api/stats/financial" /\ now' = now

\* An absent or empty period parameter stands for "month".
RequestedPeriod ==
  IF req'.query \subseteq {""} THEN "month" ELSE CHOOSE q \in req'.query : TRUE

\* C17: the financial summary covers, for period "week", exactly the
\* payments created within the last 7 days; for "month", exactly those
\* created within the last calendar month; for any other period, "year"
\* included, all payments.
C17_SummaryPeriod ==
  [][AsksSummary
       => LET selected == PaymentsOfPeriod(storage, RequestedPeriod) IN
          /\ {payment.id : payment \in Elements(filteredPayments(storage, RequestedPeriod))}
               = selected
          /\ res'.body.total = SumOfAmounts(storage, selected)]_vars

SelectedPayments == {payment.id : payment \in Elements(filteredPayments(storage, RequestedPeriod))}

WithStatus(ids, status) ==
  {id \in ids : Has(storage.payments[id], "status") /\ storage.payments[id].status = status}

SummarySums(selected, pending, paid) ==
  /\ res'.body.total = SumOfAmounts(storage, selected)
  /\ res'.body.pending = SumOfAmounts(storage, pending)
  /\ res'.body.paid = SumOfAmounts(storage, paid)
  /\ res'.body.pending + res'.body.paid <= res'.body.total

MaxNewStatus == 1

HearingStatuses == {"pending", "assigned", "completed", "cancelled"}

PaymentStatuses == {"pending", "processing", "paid"}

StatusHearingIds == {1, 9}

StatusHearingUpdates == { [status |-> s] : s \in HearingStatuses \cup {"archived"} }

StatusUploads == { [id |-> 1, file |-> Some("minutes-1.pdf")] }

StatusPayments ==
  { [hearingId |-> 1, professionalId |-> 1, amount |-> 300, status |-> "paid"] }

StatusPaymentUpdates == { [status |-> "refunded"], [status |-> "processing"] }

NextStatus ==
  \/ \E id \in StatusHearingIds, body \in StatusHearingUpdates : PutHearingsId(id, body)
  \/ \E upload \in StatusUploads : PostHearingsIdMinutes(upload.id, upload.file)
  \/ \E body \in StatusPayments :
       /\ NewRecords < MaxNewStatus
       /\ PostPayments(body)
  \/ \E id \in FirstId, body \in StatusPaymentUpdates : PutPaymentsId(id, body)

SpecStatus == Init /\ [][NextStatus]_vars

\* C19: in every reachable state every hearing has a status among pending,
\* assigned, completed, cancelled and a paymentStatus among pending,
\* processing, paid, and every payment has a status among those three.
C19_StatusesEnumerated ==
  /\ \A h \in DOMAIN storage.hearings :
       /\ Has(storage.hearings[h], "status")
       /\ storage.hearings[h].status \in HearingStatuses
       /\ storage.hearings[h].paymentStatus \in PaymentStatuses
  /\ \A p \in DOMAIN storage.payments :
       /\ Has(storage.payments[p], "status")
       /\ storage.payments[p].status \in PaymentStatuses

\* C20: an update of an existing hearing with a status succeeds and leaves
\* the hearing in that status whatever its status was, final ones included,
\* and a minutes upload for an existing hearing leaves it completed
\* whatever its status was.
C20_NoTransitionTable ==
  [][/\ (/\ req'.route = "PUT /api/hearings/:id"
         /\ req'.id \in DOMAIN storage.hearings
         /\ Has(req'.body, "status"))
          => /\ res'.status = 200
             /\ res'.body.status = req'.body.status
             /\ storage'.hearings[req'.id].status = req'.body.status
     /\ (/\ req'.route = "POST /api/hearings/:id/minutes"
         /\ req'.id \in DOMAIN storage.hearings
         /\ req'.file # None)
          => /\ res'.status = 200
             /\ storage'.hearings[req'.id].status = "completed"]_vars

\* C20 witness: hearing 1 has its minutes, so it was completed, and an
\* update has put it back to pending.
C20_Witness ==
  /\ req.route = "PUT /api/hearings/:id"
  /\ req.id = 1
  /\ res.status = 200
  /\ storage.hearings[1].minutesUploaded
  /\ storage.hearings[1].status = "pending"

\* C21: in every reachable state a hearing with status pending has no
\* professionalId and a hearing with status assigned has one.
C21_StatusMatchesAssignment ==
  \A h \in DOMAIN storage.hearings :
    LET hearing == storage.hearings[h] IN
    /\ HasStatus(hearing, "pending") => ~Has(hearing, "professionalId")
    /\ HasStatus(hearing, "assigned") => Has(hearing, "professionalId")

(***************************************************************************)
(* The handlers one await at a time.  A storage method runs to its end     *)
(* when it is called (its body has no await); the handler that called it   *)
(* is suspended until a later turn of the event loop, and the steps of     *)
(* other requests can run in between.  Each element of inflight is a       *)
(* suspended handler: its request, the call it awaits (pc) and its local   *)
(* variables.  A local that holds a hearing object is live while that      *)
(* object is the one stored in the hearings Map: createPayment writes      *)
(* into the stored object, updateHearing stores another object in its      *)
(* place and deleteHearing removes it from the Map.                        *)
(***************************************************************************)
Replace(flights, i, r) == [flights EXCEPT ![i] = r]

Remove(flights, i) == SubSeq(flights, 1, i - 1) \o SubSeq(flights, i + 1, Len(flights))

Holds(r, id) == "live" \in DOMAIN r /\ r.live /\ r.request.id = id

Detach(flights, id) ==
  [k \in DOMAIN flights |->
     IF Holds(flights[k], id) THEN [flights[k] EXCEPT !.live = FALSE] ELSE flights[k]]

Write(flights, id, S) ==
  [k \in DOMAIN flights |->
     IF Holds(flights[k], id) /\ id \in DOMAIN S.hearings
     THEN IF "updatedHearing" \in DOMAIN flights[k]
          THEN [flights[k] EXCEPT !.updatedHearing = Some(S.hearings[id])]
          ELSE [flights[k] EXCEPT !.hearing = Some(S.hearings[id])]
     ELSE flights[k]]

Await(S, ids, order, flights) ==
  /\ storage' = S
  /\ issued' = ids
  /\ touched' = order
  /\ inflight' = flights
  /\ UNCHANGED <<now, req, res>>

Respond(i, response) ==
  /\ req' = inflight[i].request
  /\ res' = response
  /\ inflight' = Remove(inflight, i)
  /\ UNCHANGED <<storage, now, issued, touched>>

At(i, route, pc) ==
  /\ i \in DOMAIN inflight
  /\ inflight[i].request.route = route
  /\ inflight[i].pc = pc

\* GET /api/hearings/:id
GetHearingsIdGetHearing(id) ==
  Await(storage, issued, touched,
        Append(inflight, [request |-> [route |-> "GET /api/hearings/:id", id |-> id],
                          pc |-> "getHearing",
                          hearing |-> getHearing(storage, id),
                          live |-> TRUE]))

GetHearingsIdRespond(i) ==
  /\ At(i, "GET /api/hearings/:id", "getHearing")
  /\ IF inflight[i].hearing = None
     THEN Respond(i, NotFound("Hearing not found"))
     ELSE Respond(i, [status |-> 200, body |-> CHOOSE h \in inflight[i].hearing : TRUE])

\* DELETE /api/hearings/:id
DeleteHearingsIdDeleteHearing(id) ==
  LET r == deleteHearing(storage, id) IN
  Await(r.storage, issued, touched,
        Append(Detach(inflight, id),
               [request |-> [route |-> "DELETE /api/hearings/:id", id |-> id],
                pc |-> "deleteHearing",
                success |-> r.ret]))

DeleteHearingsIdRespond(i) ==
  /\ At(i, "DELETE /api/hearings/:id", "deleteHearing")
  /\ IF ~inflight[i].success
     THEN Respond(i, NotFound("Hearing not found"))
     ELSE Respond(i, [status |-> 204])

\* POST /api/hearings/:id/minutes
MinutesGetHearing(id, file) ==
  LET request == [route |-> "POST /api/hearings/:id/minutes", id |-> id, file |-> file] IN
  IF file = None
  THEN Serve(request, [status |-> 400, body |-> [error |-> "No file uploaded"]],
             storage, issued, touched)
  ELSE Await(storage, issued, touched,
             Append(inflight, [request |-> request,
                               pc |-> "getHearing",
                               hearing |-> getHearing(storage, id)]))

MinutesUpdateHearingAndTask(i) ==
  /\ At(i, "POST /api/hearings/:id/minutes", "getHearing")
  /\ LET r == inflight[i] IN
     IF r.hearing = None
     THEN Respond(i, NotFound("Hearing not found"))
     ELSE LET minutesUrl == UploadUrl(CHOOSE f \in r.request.file : TRUE)
              u == updateHearing(storage, r.request.id, minutesUpdate(minutesUrl))
              found == minutesTask(getTasks(u.storage), r.request.id)
              S2 == IF u.ret # None /\ found # None
                    THEN updateTask(u.storage, (CHOOSE t \in found : TRUE).id,
                                    [status |-> "completed"]).storage
                    ELSE u.storage
          IN  Await(S2, issued, touched,
                    Replace(IF u.ret = None THEN inflight
                            ELSE Detach(inflight, r.request.id),
                            i, [request |-> r.request,
                                pc |-> "updateHearing",
                                updatedHearing |-> u.ret,
                                live |-> u.ret # None]))

MinutesUpdateHearing(i) ==
  /\ At(i, "POST /api/hearings/:id/minutes", "getHearing")
  /\ LET r == inflight[i] IN
     IF r.hearing = None
     THEN Respond(i, NotFound("Hearing not found"))
     ELSE LET minutesUrl == UploadUrl(CHOOSE f \in r.request.file : TRUE)
              u == updateHearing(storage, r.request.id, minutesUpdate(minutesUrl))
          IN  Await(u.storage, issued, touched,
                    Replace(IF u.ret = None THEN inflight
                            ELSE Detach(inflight, r.request.id),
                            i, [request |-> r.request,
                                pc |-> "updateHearing",
                                updatedHearing |-> u.ret,
                                live |-> u.ret # None]))

MinutesGetTasks(i) ==
  /\ At(i, "POST /api/hearings/:id/minutes", "updateHearing")
  /\ LET r == inflight[i] IN
     IF r.updatedHearing = None
     THEN Respond(i, [status |-> 500, body |-> [error |-> "Failed to update hearing"]])
     ELSE Await(storage, issued, touched,
                Replace(inflight, i, [request |-> r.request,
                                      pc |-> "getTasks",
                                      updatedHearing |-> r.updatedHearing,
                                      live |-> r.live,
                                      tasks |-> getTasks(storage)]))

MinutesUpdateTask(i) ==
  /\ At(i, "POST /api/hearings/:id/minutes", "getTasks")
  /\ LET r == inflight[i]
         found == minutesTask(r.tasks, r.request.id)
     IN  IF found # None
         THEN Await(updateTask(storage, (CHOOSE t \in found : TRUE).id,
                               [status |-> "completed"]).storage,
                    issued, touched,
                    Replace(inflight, i, [request |-> r.request,
                                          pc |-> "updateTask",
                                          updatedHearing |-> r.updatedHearing,
                                          live |-> r.live]))
         ELSE Respond(i, [status |-> 200, body |-> CHOOSE h \in r.updatedHearing : TRUE])

MinutesRespond(i) ==
  /\ At(i, "POST /api/hearings/:id/minutes", "updateTask")
  /\ Respond(i, [status |-> 200, body |-> CHOOSE h \in inflight[i].updatedHearing : TRUE])

\* POST /api/payments
PaymentsCreatePayment(body) ==
  LET result == safeParse(insertPaymentSchema, body)
      request == [route |-> "POST /api/payments", body |-> body]
  IN  IF ~result.success THEN Serve(request, BadRequest, storage, issued, touched)
      ELSE LET c == createPayment(storage, result.data) IN
           Await(c.storage, Issue("payment", c.ret.id), <<c.ret.id>> \o touched,
                 Append(Write(inflight, result.data.hearingId, c.storage),
                        [request |-> request,
                         pc |-> "createPayment",
                         data |-> result.data,
                         payment |-> c.ret]))

PaymentsGetTasks(i) ==
  /\ At(i, "POST /api/payments", "createPayment")
  /\ LET r == inflight[i] IN
     Await(storage, issued, touched,
           Replace(inflight, i, [request |-> r.request,
                                 pc |-> "getTasks",
                                 data |-> r.data,
                                 payment |-> r.payment,
                                 tasks |-> getTasks(storage)]))

PaymentsUpdateTask(i) ==
  /\ At(i, "POST /api/payments", "getTasks")
  /\ LET r == inflight[i]
         found == paymentTask(r.tasks, r.data.hearingId)
     IN  IF found # None
         THEN Await(updateTask(storage, (CHOOSE t \in found : TRUE).id,
                               [status |-> "completed"]).storage,
                    issued, touched,
                    Replace(inflight, i, [request |-> r.request,
                                          pc |-> "updateTask",
                                          payment |-> r.payment]))
         ELSE Respond(i, [status |-> 201, body |-> r.payment])

PaymentsRespond(i) ==
  /\ At(i, "POST /api/payments", "updateTask")
  /\ Respond(i, [status |-> 201, body |-> inflight[i].payment])

(***************************************************************************)
(* SpecSteps: uploads of minutes, creations of payments, deletions and     *)
(* reads of hearings, interleaved at their awaits.                         *)
(***************************************************************************)
MaxInflight == 2

MaxNewSteps == 1

CanStart == Len(inflight) < MaxInflight

Flights == 1..MaxInflight

StepHearingIds == {1}

StepUploads == { [id |-> 1, file |-> Some("minutes-1.pdf")], [id |-> 1, file |-> None] }

StepPayments ==
  { [hearingId |-> 3, professionalId |-> 3, amount |-> 300, status |-> "paid"],
    [hearingId |-> 1, professionalId |-> 1, amount |-> 500, status |-> "processing"],
    [hearingId |-> 1] }

NextSteps ==
  \/ \E id \in StepHearingIds : CanStart /\ GetHearingsIdGetHearing(id)
  \/ \E i \in Flights : GetHearingsIdRespond(i)
  \/ \E id \in StepHearingIds : CanStart /\ DeleteHearingsIdDeleteHearing(id)
  \/ \E i \in Flights : DeleteHearingsIdRespond(i)
  \/ \E upload \in StepUploads : CanStart /\ MinutesGetHearing(upload.id, upload.file)
  \/ \E i \in Flights : MinutesUpdateHearing(i)
  \/ \E i \in Flights : MinutesGetTasks(i)
  \/ \E i \in Flights : MinutesUpdateTask(i)
  \/ \E i \in Flights : MinutesRespond(i)
  \/ \E body \in StepPayments :
       /\ CanStart
       /\ NewRecords < MaxNewSteps
       /\ PaymentsCreatePayment(body)
  \/ \E i \in Flights : PaymentsGetTasks(i)
  \/ \E i \in Flights : PaymentsUpdateTask(i)
  \/ \E i \in Flights : PaymentsRespond(i)

SpecSteps == Init /\ [][NextSteps]_vars

\* C22: the handlers of the minutes upload and of the payment creation are
\* not atomic: no step changes both a task and a hearing or payment, so
\* the step that stores minutesUploaded (or stores the payment and syncs
\* the hearing) leaves every task as it was and the task is completed in a
\* later step, with the steps of other requests free to run in between.
C22_TaskCompletedInLaterStep ==
  [][ \/ storage'.tasks = storage.tasks
      \/ /\ storage'.hearings = storage.hearings
         /\ storage'.payments = storage.payments ]_vars

\* A GET /api/hearings/1 answered while the upload for hearing 1 is
\* suspended shows minutesUploaded true with the upload_minutes task still
\* pending; a payment for hearing 3 is stored and synced with its handler
\* suspended and the payment task of hearing 3 still pending.
C22_Witness ==
  /\ req = [route |-> "GET /api/hearings/:id", id |-> 1]
  /\ res.status = 200
  /\ res.body.minutesUploaded
  /\ \E i \in DOMAIN inflight : At(i, "POST /api/hearings/:id/minutes", "updateHearing")
  /\ minutesTask(getTasks(storage), 1) # None
  /\ \E i \in DOMAIN inflight : At(i, "POST /api/payments", "createPayment")
  /\ 1 \in DOMAIN storage.payments
  /\ storage.hearings[3].paymentStatus = "paid"
  /\ paymentTask(getTasks(storage), 3) # None

\* C28: when the hearing an upload has found is deleted by another request
\* before the upload calls updateHearing, the call changes nothing in the
\* store (the hearing is not created again, no task is completed) and
\* returns undefined, and the upload then answers 500 without touching the
\* store.
C28_UploadAfterDeleteFails ==
  [][ \A i \in DOMAIN inflight :
        LET r == inflight[i] IN
        /\ ( /\ At(i, "POST /api/hearings/:id/minutes", "getHearing")
             /\ r.hearing # None
             /\ r.request.id \notin DOMAIN storage.hearings
             /\ Len(inflight') = Len(inflight)
             /\ inflight'[i] # r )
           => /\ storage' = storage
              /\ inflight'[i].pc = "updateHearing"
              /\ inflight'[i].updatedHearing = None
        /\ ( /\ At(i, "POST /api/hearings/:id/minutes", "updateHearing")
             /\ r.updatedHearing = None )
           => IF Len(inflight') = Len(inflight)
              THEN inflight'[i] = r
              ELSE inflight' = Remove(inflight, i)
                     => /\ req' = r.request
                        /\ res' = [status |-> 500,
                                   body |-> [error |-> "Failed to update hearing"]]
                        /\ storage' = storage ]_vars

\* The upload for hearing 1 has answered 500 after a DELETE of hearing 1
\* ran between its getHearing and its updateHearing: the hearing is absent
\* and its upload_minutes task is still pending.
C28_Witness ==
  /\ req = [route |-> "POST /api/hearings/:id/minutes", id |-> 1,
            file |-> Some("minutes-1.pdf")]
  /\ res.status = 500
  /\ 1 \notin DOMAIN storage.hearings
  /\ minutesTask(getTasks(storage), 1) # None

(***************************************************************************)
(* SpecPaymentSteps: concurrent POST /api/payments requests only,          *)
(* interleaved at their awaits.                                            *)
(***************************************************************************)
MaxNewPaymentSteps == 2

ConcurrentPayments ==
  { [hearingId |-> 1, professionalId |-> 1, amount |-> 300, status |-> "paid"],
    [hearingId |-> 1, professionalId |-> 1, amount |-> 500, status |-> "pending"],
    [hearingId |-> 1, professionalId |-> 1, amount |-> 200],
    [hearingId |-> 3, professionalId |-> 3, amount |-> 300, status |-> "paid"],
    [hearingId |-> 9, professionalId |-> 3, amount |-> 300, status |-> "paid"],
    [hearingId |-> 1] }

NextPaymentSteps ==
  \/ \E body \in ConcurrentPayments :
       /\ CanStart
       /\ NewRecords < MaxNewPaymentSteps
       /\ PaymentsCreatePayment(body)
  \/ \E i \in Flights : PaymentsGetTasks(i)
  \/ \E i \in Flights : PaymentsUpdateTask(i)
  \/ \E i \in Flights : PaymentsRespond(i)

SpecPaymentSteps == Init /\ [][NextPaymentSteps]_vars

PaymentsOf(hearingId) ==
  { id \in DOMAIN storage.payments : storage.payments[id].hearingId = hearingId }

GreatestId(ids) == CHOOSE id \in ids : \A other \in ids : other <= id

\* C30: with payment creations only, interleaved at their awaits, in every
\* reachable state every hearing that stored payments reference has the
\* paymentStatus and the paymentAmount of the payment with the greatest id
\* among them: no state separates storing a payment from syncing its
\* hearing.
C30_HearingMirrorsGreatestPayment ==
  \A h \in DOMAIN storage.hearings :
    PaymentsOf(h) # {} =>
      LET payment == storage.payments[GreatestId(PaymentsOf(h))] IN
      /\ Has(storage.hearings[h], "paymentAmount")
      /\ storage.hearings[h].paymentAmount = payment.amount
      /\ storage.hearings[h].paymentStatus =
           IF Has(payment, "status") THEN payment.status ELSE Undefined

\* Two creations for hearing 1 are suspended after createPayment, neither
\* has answered, and the hearing carries the values of the second.
C30_Witness ==
  /\ Len(inflight) = 2
  /\ \A i \in DOMAIN inflight : At(i, "POST /api/payments", "createPayment")
  /\ PaymentsOf(1) = {1, 2}
  /\ storage.payments[1].amount # storage.payments[2].amount
  /\ storage.hearings[1].paymentAmount = storage.payments[2].amount

\* C23: in every reachable state, for a stored hearing whose jurisdictionId
\* names no stored jurisdiction (never created, or deleted since), the
\* eligibility result is empty whatever professionals are stored.
C23_NoJurisdictionNoEligible ==
  \A h \in DOMAIN storage.hearings :
    storage.hearings[h].jurisdictionId \notin DOMAIN storage.jurisdictions
      => getEligibleProfessionals(storage.hearings[h]) = <<>>

\* Jurisdiction 1 has just been deleted; hearing 1 still names it and
\* professional 1, set active and of the hearing's area, is not offered.
C23_Witness ==
  /\ req = [route |-> "DELETE /api/jurisdictions/:id", id |-> 1]
  /\ res.status = 204
  /\ 1 \in DOMAIN storage.hearings
  /\ storage.hearings[1].jurisdictionId = 1
  /\ 1 \notin DOMAIN storage.jurisdictions
  /\ 1 \in DOMAIN storage.professionals
  /\ Has(storage.professionals[1], "active")
  /\ storage.professionals[1].active = TRUE
  /\ storage.professionals[1].specialization = storage.hearings[1].area
  /\ getEligibleProfessionals(storage.hearings[1]) = <<>>

(***************************************************************************)
(* The hearing form: the professionals it offers for the jurisdiction and  *)
(* the area selected in the form.  Its query data are the same two lists.  *)
(* 0, the empty string, null and undefined are the falsy values met here.  *)
(***************************************************************************)
getJurisdictionState(id) ==
  LET jurisdictions == getJurisdictions(storage)
      jurisdiction == Find(jurisdictions, LAMBDA j : j.id = id)
  IN  IF jurisdiction = None THEN None
      ELSE IF (CHOOSE j \in jurisdiction : TRUE).state = "" THEN None
      ELSE Some((CHOOSE j \in jurisdiction : TRUE).state)

eligibleProfessionals(selectedJurisdictionId, selectedArea) ==
  LET professionals == getProfessionals(storage)
      jurisdictionState == getJurisdictionState(selectedJurisdictionId)
  IN  Filter(professionals,
             LAMBDA professional :
               IF selectedJurisdictionId = 0 \/ selectedArea = "" THEN FALSE
               ELSE IF jurisdictionState = None THEN FALSE
               ELSE /\ Has(professional, "active") /\ professional.active
                    /\ Includes(professional.jurisdictions,
                                CHOOSE state \in jurisdictionState : TRUE)
                    /\ professional.specialization = selectedArea)

(***************************************************************************)
(* SpecForm: jurisdictions and professionals are created and edited        *)
(* through the API, whose schemas accept any string as a state, as an      *)
(* element of jurisdictions and as a specialization.                       *)
(***************************************************************************)
MaxNewForm == 2

FormJurisdictions ==
  { [state |-> "", city |-> "Campinas"], [state |-> "SP", city |-> "Campinas"] }

FormProfessionals ==
  { [type |-> "lawyer", specialization |-> "Civil", jurisdictions |-> <<"", "SP">>,
     active |-> TRUE],
    [type |-> "lawyer", specialization |-> "", jurisdictions |-> <<"SP">>,
     active |-> TRUE] }

FormProfessionalUpdates ==
  { [active |-> TRUE], [active |-> FALSE], [specialization |-> ""],
    [jurisdictions |-> <<"">>] }

FormJurisdictionUpdates == { [state |-> ""], [state |-> "RJ"] }

FormJurisdictionIds == {1, 6}

NextForm ==
  \/ \E body \in FormProfessionals :
       /\ NewRecords < MaxNewForm
       /\ PostProfessionals(body)
  \/ \E id \in FirstId, body \in FormProfessionalUpdates : PutProfessionalsId(id, body)
  \/ \E body \in FormJurisdictions :
       /\ NewRecords < MaxNewForm
       /\ PostJurisdictions(body)
  \/ \E id \in FormJurisdictionIds, body \in FormJurisdictionUpdates :
       PutJurisdictionsId(id, body)
  \/ \E id \in FormJurisdictionIds : DeleteJurisdictionsId(id)

SpecForm == Init /\ [][NextForm]_vars

SelectableJurisdictionIds == 0..7

SelectableAreas == {"", "Civil", "Criminal", "Labor"}

\* C24: in every reachable state, for every jurisdictionId (0 and unknown
\* ids included) and every area (the empty one included), the filter of
\* the hearings page and the filter of the hearing form return the same
\* professionals.
C24_FiltersAgree ==
  \A jurisdictionId \in SelectableJurisdictionIds, area \in SelectableAreas :
    getEligibleProfessionals([jurisdictionId |-> jurisdictionId, area |-> area])
      = eligibleProfessionals(jurisdictionId, area)

(***************************************************************************)
(* SpecReassign: payments are created for hearings 1 and 3 and updated,    *)
(* the update naming another hearing, another status, or both.             *)
(***************************************************************************)
MaxNewReassign == 2

ReassignPayments ==
  { [hearingId |-> 3, professionalId |-> 3, amount |-> 300, status |-> "paid"],
    [hearingId |-> 1, professionalId |-> 1, amount |-> 500, status |-> "pending"] }

ReassignPaymentIds == {1, 2}

ReassignPaymentUpdates ==
  { [hearingId |-> 1, status |-> "processing"],
    [hearingId |-> 3, status |-> "paid"],
    [hearingId |-> 9, status |-> "pending"],
    [hearingId |-> 1],
    [status |-> "paid"] }

NextReassign ==
  \/ \E body \in ReassignPayments :
       /\ NewRecords < MaxNewReassign
       /\ PostPayments(body)
  \/ \E id \in ReassignPaymentIds, body \in ReassignPaymentUpdates : PutPaymentsId(id, body)

SpecReassign == Init /\ [][NextReassign]_vars

\* C25: every PUT /api/payments/:id that is answered 200 and changes both
\* the status and the hearingId of the payment leaves the hearing named by
\* the new hearingId, when it is stored, with the payment's new status as
\* its paymentStatus.
C25_StatusFollowsNewHearing ==
  [][ ( /\ req'.route = "PUT /api/payments/:id"
        /\ res'.status = 200
        /\ storage'.payments[req'.id].status # storage.payments[req'.id].status
        /\ storage'.payments[req'.id].hearingId # storage.payments[req'.id].hearingId
        /\ storage'.payments[req'.id].hearingId \in DOMAIN storage'.hearings )
      => storage'.hearings[storage'.payments[req'.id].hearingId].paymentStatus
           = storage'.payments[req'.id].status ]_vars

(***************************************************************************)
(* SpecKeys: the create, update and delete methods of the store called     *)
(* directly for hearings and payments.  The update methods take a          *)
(* Partial<Hearing> and a Partial<Payment>, of which id is a property.     *)
(***************************************************************************)
CallUpdateHearing(id, hearing) ==
  LET u == updateHearing(storage, id, hearing) IN
  Serve([route |-> "updateHearing", id |-> id, body |-> hearing], Return(u.ret),
        u.storage, issued, touched)

CallDeleteHearing(id) ==
  LET d == deleteHearing(storage, id) IN
  Serve([route |-> "deleteHearing", id |-> id], Return(d.ret), d.storage, issued, touched)

CallUpdatePayment(id, payment) ==
  LET u == updatePayment(storage, id, payment) IN
  Serve([route |-> "updatePayment", id |-> id, body |-> payment], Return(u.ret),
        u.storage, issued,
        IF u.ret = None THEN touched ELSE <<id>> \o Without(touched, id))

CallDeletePayment(id) ==
  LET d == deletePayment(storage, id) IN
  Serve([route |-> "deletePayment", id |-> id], Return(d.ret), d.storage, issued,
        Without(touched, id))

MaxNewKeys == 2

KeysHearings == { [jurisdictionId |-> 1, date |-> 1, area |-> "Civil"] }

KeysHearingUpdates == { [status |-> "completed"], [id |-> 5], [id |-> 2] }

KeysPayments == { [hearingId |-> 1, professionalId |-> 1, amount |-> 300, status |-> "paid"] }

KeysPaymentUpdates == { [status |-> "processing"], [id |-> 2] }

KeysIds == {1, 4}

NextKeys ==
  \/ \E hearing \in KeysHearings :
       /\ NewRecords < MaxNewKeys
       /\ CallCreateHearing(hearing)
  \/ \E id \in KeysIds, hearing \in KeysHearingUpdates : CallUpdateHearing(id, hearing)
  \/ \E id \in KeysIds : CallDeleteHearing(id)
  \/ \E payment \in KeysPayments :
       /\ NewRecords < MaxNewKeys
       /\ CallCreatePayment(payment)
  \/ \E id \in KeysIds, payment \in KeysPaymentUpdates : CallUpdatePayment(id, payment)
  \/ \E id \in KeysIds : CallDeletePayment(id)

SpecKeys == Init /\ [][NextKeys]_vars

EntityTypes ==
  { [map |-> "users", counter |-> "userIdCounter"],
    [map |-> "professionals", counter |-> "professionalIdCounter"],
    [map |-> "jurisdictions", counter |-> "jurisdictionIdCounter"],
    [map |-> "hearings", counter |-> "hearingIdCounter"],
    [map |-> "payments", counter |-> "paymentIdCounter"],
    [map |-> "tasks", counter |-> "taskIdCounter"] }

\* C26: in every state reached through the create, update and delete
\* methods of the store, every record is stored under its own id and the
\* id counter of each entity type is greater than every key of its Map.
C26_IdsAreKeys ==
  \A type \in EntityTypes :
    \A key \in DOMAIN storage[type.map] :
      /\ storage[type.map][key].id = key
      /\ key < storage[type.counter]

(***************************************************************************)
(* SpecMinutes: every route that writes a hearing, with PUT bodies that    *)
(* carry the properties insertHearingSchema omits.                         *)
(***************************************************************************)
MaxNewMinutes == 2

MinutesHearings == { [jurisdictionId |-> 1, date |-> 1, area |-> "Civil"] }

MinutesHearingUpdates ==
  { [status |-> "cancelled", minutesUploaded |-> FALSE, minutesUrl |-> <<>>,
     paymentStatus |-> "refunded", paymentAmount |-> 1, createdAt |-> 99],
    [minutesUploaded |-> FALSE],
    [notes |-> "adiada"] }

MinutesUploads ==
  { [id |-> 1, file |-> Some("minutes-1.pdf")], [id |-> 1, file |-> Some("minutes-2.pdf")] }

MinutesPayments ==
  { [hearingId |-> 1, professionalId |-> 1, amount |-> 300, status |-> "paid"] }

MinutesPaymentUpdates == { [status |-> "processing"] }

NextMinutes ==
  \/ \E body \in MinutesHearings :
       /\ NewRecords < MaxNewMinutes
       /\ PostHearings(body)
  \/ \E id \in FirstId, body \in MinutesHearingUpdates : PutHearingsId(id, body)
  \/ \E id \in FirstId : DeleteHearingsId(id)
  \/ \E upload \in MinutesUploads : PostHearingsIdMinutes(upload.id, upload.file)
  \/ \E body \in MinutesPayments :
       /\ NewRecords < MaxNewMinutes
       /\ PostPayments(body)
  \/ \E id \in FirstId, body \in MinutesPaymentUpdates : PutPaymentsId(id, body)

SpecMinutes == Init /\ [][NextMinutes]_vars

OmittedKeys == {"minutesUploaded", "minutesUrl", "paymentStatus", "paymentAmount", "createdAt"}

\* C27: for every hearing that exists before and after a request, a PUT
\* /api/hearings/:id leaves minutesUploaded, minutesUrl, paymentStatus,
\* paymentAmount and createdAt as they were; these change only in a
\* minutes upload or a payment creation or update; and a hearing with
\* minutesUploaded true keeps it true with a minutesUrl set.
C27_MinutesStay ==
  [][ \A h \in DOMAIN storage.hearings \cap DOMAIN storage'.hearings :
        LET before == storage.hearings[h]
            after == storage'.hearings[h]
        IN  /\ req'.route = "PUT /api/hearings/:id"
                 => Restrict(after, OmittedKeys) = Restrict(before, OmittedKeys)
            /\ Restrict(after, OmittedKeys) # Restrict(before, OmittedKeys)
                 => req'.route \in {"POST /api/hearings/:id/minutes",
                                    "POST /api/payments", "PUT /api/payments/:id"}
            /\ before.minutesUploaded
                 => /\ after.minutesUploaded
                    /\ Has(after, "minutesUrl")
                    /\ after.minutesUrl # <<>> ]_vars

\* A PUT /api/hearings/1 whose body carries minutesUploaded false and the
\* other omitted properties was answered 200 after the upload: the hearing
\* is cancelled, as the body asked, and still has its minutes.
C27_Witness ==
  /\ req.route = "PUT /api/hearings/:id"
  /\ req.id = 1
  /\ Has(req.body, "minutesUploaded") /\ Has(req.body, "createdAt")
  /\ res.status = 200
  /\ storage.hearings[1].status = "cancelled"
  /\ storage.hearings[1].minutesUploaded
  /\ storage.hearings[1].minutesUrl = UploadUrl("minutes-1.pdf")
  /\ storage.hearings[1].createdAt = 0

(***************************************************************************)
(* The GET routes under /api/hearings.  Express tries the routes in the    *)
(* order registerRoutes registered them and runs the handler of the first  *)
(* whose path matches the url; a segment that starts with a colon matches  *)
(* any one segment, and a handler that answers ends the dispatch.  A url   *)
(* is the sequence of its segments after /api/hearings.  The routes of     *)
(* two segments registered between :id and upcoming match no url of one    *)
(* segment and are left out.  The hearings of the model have no time: the  *)
(* sort of getUpcomingHearings orders by date and, being stable, keeps the *)
(* hearings of one day in Map order.                                       *)
(***************************************************************************)
RouteParams == {":id"}

HearingGetRoutes ==
  << [path |-> <<>>, route |-> "GET /api/hearings"],
     [path |-> <<":id">>, route |-> "GET /api/hearings/:id"],
     [path |-> <<"upcoming">>, route |-> "GET /api/hearings/upcoming"],
     [path |-> <<"pending-assignment">>, route |-> "GET /api/hearings/pending-assignment"] >>

Matches(path, url) ==
  /\ Len(path) = Len(url)
  /\ \A i \in 1..Len(path) : path[i] \in RouteParams \/ path[i] = url[i]

Digits == ("1" :> 1) @@ ("3" :> 3) @@ ("9" :> 9)

\* NaN is None.
parseInt(string) == IF string \in DOMAIN Digits THEN Some(Digits[string]) ELSE None

RECURSIVE sort(_)
sort(hearings) ==
  IF hearings = <<>> THEN <<>>
  ELSE LET a == Head(hearings)
           rest == sort(Tail(hearings))
       IN  SelectSeq(rest, LAMBDA b : b.date < a.date) \o <<a>>
             \o SelectSeq(rest, LAMBDA b : b.date >= a.date)

getUpcomingHearings(S) ==
  LET today == now IN
  sort(Filter(MapValues(S.hearings), LAMBDA h : h.date >= today))

GetHearingsId(request) ==
  LET id == parseInt(request.url[1]) IN
  IF id = None
  THEN Serve(request, [status |-> 400, body |-> [error |-> "Invalid ID"]],
             storage, issued, touched)
  ELSE LET hearing == getHearing(storage, CHOOSE n \in id : TRUE) IN
       IF hearing = None
       THEN Serve(request, NotFound("Hearing not found"), storage, issued, touched)
       ELSE Serve(request, [status |-> 200, body |-> CHOOSE h \in hearing : TRUE],
                  storage, issued, touched)

Get(url) ==
  LET matched == Find(HearingGetRoutes, LAMBDA r : Matches(r.path, url)) IN
  IF matched = None
  THEN Serve([route |-> "none", url |-> url], [status |-> 404], storage, issued, touched)
  ELSE LET request == [route |-> (CHOOSE r \in matched : TRUE).route, url |-> url] IN
       CASE request.route = "GET /api/hearings" ->
              Serve(request, [status |-> 200, body |-> getHearings(storage)],
                    storage, issued, touched)
         [] request.route = "GET /api/hearings/:id" -> GetHearingsId(request)
         [] request.route = "GET /api/hearings/upcoming" ->
              Serve(request, [status |-> 200, body |-> getUpcomingHearings(storage)],
                    storage, issued, touched)
         [] request.route = "GET /api/hearings/pending-assignment" ->
              Serve(request,
                    [status |-> 200, body |-> getPendingAssignmentHearings(storage)],
                    storage, issued, touched)

(***************************************************************************)
(* SpecDispatch: GET requests under /api/hearings while hearings are       *)
(* created and edited and days pass.                                       *)
(***************************************************************************)
MaxNewDispatch == 2

MaxDispatchDay == 2

Urls == { <<>>, <<"1">>, <<"9">>, <<"upcoming">>, <<"pending-assignment">> }

DispatchHearings ==
  { [jurisdictionId |-> 1, date |-> 0, area |-> "Civil", status |-> "pending"],
    [jurisdictionId |-> 1, date |-> 2, area |-> "Civil", status |-> "pending"] }

DispatchHearingUpdates == { [status |-> "pending"], [date |-> 2] }

NextDispatch ==
  \/ \E url \in Urls : Get(url)
  \/ /\ now < MaxDispatchDay
     /\ Tick
  \/ \E body \in DispatchHearings :
       /\ NewRecords < MaxNewDispatch
       /\ PostHearings(body)
  \/ \E id \in FirstId, body \in DispatchHearingUpdates : PutHearingsId(id, body)

SpecDispatch == Init /\ [][NextDispatch]_vars

\* C29: every GET of /api/hearings/upcoming is answered 200 with the
\* hearings dated today or later in ascending order, and every GET of
\* /api/hearings/pending-assignment is answered 200 with the hearings of
\* status pending; neither is answered by the handler of /api/hearings/:id.
C29_ListRoutesAnswered ==
  [][ Has(req', "url") =>
        /\ req'.url = <<"upcoming">> =>
             /\ req'.route = "GET /api/hearings/upcoming"
             /\ res' = [status |-> 200, body |-> getUpcomingHearings(storage)]
        /\ req'.url = <<"pending-assignment">> =>
             /\ req'.route = "GET /api/hearings/pending-assignment"
             /\ res' = [status |-> 200, body |-> getPendingAssignmentHearings(storage)]
    ]_vars

====
